---- MODULE Spec2Model ----
(***************************************************************************)
(* Response-rendering pipeline of the Telegram analytics bot.              *)
(*                                                                         *)
(* A Rust String is modelled as the sequence of its Unicode scalar values  *)
(* (integers); its byte length is the sum of the UTF-8 widths of these.    *)
(* Byte offsets and char counts are kept apart exactly where the source    *)
(* keeps (or confuses) them.                                               *)
(***************************************************************************)
EXTENDS Integers, Sequences, FiniteSets, TLC

(***************************************************************************)
(* Strings                                                                 *)
(***************************************************************************)

\* number of bytes of the UTF-8 encoding of one scalar value
Utf8Len(c) == IF c < 128 THEN 1 ELSE IF c < 2048 THEN 2 ELSE IF c < 65536 THEN 3 ELSE 4

RECURSIVE ByteLen(_)
\* str::len(): the length in bytes (summed by halves to keep the evaluation shallow)
ByteLen(s) ==
  IF s = <<>> THEN 0
  ELSE IF Len(s) = 1 THEN Utf8Len(s[1])
  ELSE LET h == Len(s) \div 2
       IN ByteLen(SubSeq(s, 1, h)) + ByteLen(SubSeq(s, h + 1, Len(s)))

\* char::to_lowercase on the scalar values the model draws texts from:
\* ASCII A-Z, Cyrillic U+0410..U+042F and U+0400..U+040F; every other value the
\* model uses is caseless.  The mapping keeps the UTF-8 width of each of them.
LowerChar(c) ==
  IF c >= 65 /\ c <= 90 THEN c + 32
  ELSE IF c >= 1040 /\ c <= 1071 THEN c + 32
  ELSE IF c >= 1024 /\ c <= 1039 THEN c + 80
  ELSE c

\* str::to_lowercase()
ToLowercase(s) == [i \in 1..Len(s) |-> LowerChar(s[i])]

\* char::is_whitespace (White_Space code points)
IsWhitespace(c) == c \in {9, 10, 11, 12, 13, 32, 133, 160, 5760, 8232, 8233, 8239, 8287, 12288}
                   \/ (c >= 8192 /\ c <= 8202)

MinOf(S) == CHOOSE m \in S : \A o \in S : m <= o

\* needle occurs in hay at char index i (1-based)
MatchAt(hay, needle, i) ==
  /\ i >= 1
  /\ i + Len(needle) - 1 <= Len(hay)
  /\ \A j \in 1..Len(needle) : hay[i + j - 1] = needle[j]

\* str::find on the slice that starts at char index from: the char index of the
\* first occurrence at or after from, 0 when there is none (None)
StrFind(hay, needle, from) ==
  LET hits == {i \in from..(Len(hay) - Len(needle) + 1) : MatchAt(hay, needle, i)}
  IN IF hits = {} THEN 0 ELSE MinOf(hits)

\* str::contains
StrContains(hay, needle) == StrFind(hay, needle, 1) # 0

\* str::starts_with
StartsWith(s, p) == MatchAt(s, p, 1)

\* byte offset at which the char with (1-based) index i starts
ByteOffset(s, i) == ByteLen(SubSeq(s, 1, i - 1))

RECURSIVE Flatten(_)
\* concatenation of a sequence of strings (by halves to keep the evaluation shallow)
Flatten(ss) ==
  IF ss = <<>> THEN <<>>
  ELSE IF Len(ss) = 1 THEN ss[1]
  ELSE LET h == Len(ss) \div 2
       IN Flatten(SubSeq(ss, 1, h)) \o Flatten(SubSeq(ss, h + 1, Len(ss)))

\* str::lines() for a string whose newline item is nl: the pieces between
\* newlines, in order; a final piece is yielded only when it is not empty
Lines(s, nl) ==
  LET nls == SelectSeq([i \in 1..Len(s) |-> i], LAMBDA i : s[i] = nl)
      From(k) == IF k = 1 THEN 1 ELSE nls[k - 1] + 1
      last == IF nls = <<>> THEN 0 ELSE nls[Len(nls)]
  IN [k \in 1..Len(nls) |-> SubSeq(s, From(k), nls[k] - 1)]
     \o (IF last < Len(s) THEN <<SubSeq(s, last + 1, Len(s))>> ELSE <<>>)

RECURSIVE TrimStart(_)
TrimStart(s) == IF s # <<>> /\ IsWhitespace(Head(s)) THEN TrimStart(Tail(s)) ELSE s

RECURSIVE TrimEnd(_)
TrimEnd(s) ==
  IF s # <<>> /\ IsWhitespace(s[Len(s)]) THEN TrimEnd(SubSeq(s, 1, Len(s) - 1)) ELSE s

\* str::trim()
Trim(s) == TrimEnd(TrimStart(s))

RECURSIVE TrimStartMatches(_, _)
TrimStartMatches(s, c) == IF s # <<>> /\ Head(s) = c THEN TrimStartMatches(Tail(s), c) ELSE s

RECURSIVE TrimEndMatches(_, _)
TrimEndMatches(s, c) ==
  IF s # <<>> /\ s[Len(s)] = c THEN TrimEndMatches(SubSeq(s, 1, Len(s) - 1), c) ELSE s

\* str::trim_matches(c)
TrimMatches(s, c) == TrimEndMatches(TrimStartMatches(s, c), c)

RECURSIVE SplitWhitespaceFrom(_, _)
\* str::split_whitespace(): the maximal runs of non-whitespace, in order;
\* cur is the run being read
SplitWhitespaceFrom(s, cur) ==
  IF s = <<>> THEN (IF cur = <<>> THEN <<>> ELSE <<cur>>)
  ELSE IF IsWhitespace(Head(s))
       THEN (IF cur = <<>> THEN <<>> ELSE <<cur>>) \o SplitWhitespaceFrom(Tail(s), <<>>)
       ELSE SplitWhitespaceFrom(Tail(s), Append(cur, Head(s)))

SplitWhitespace(s) == SplitWhitespaceFrom(s, <<>>)

RECURSIVE JoinWith(_, _)
\* [String]::join(sep) (by halves to keep the evaluation shallow)
JoinWith(ws, sep) ==
  IF ws = <<>> THEN <<>>
  ELSE IF Len(ws) = 1 THEN ws[1]
  ELSE LET h == Len(ws) \div 2
       IN JoinWith(SubSeq(ws, 1, h), sep) \o sep \o JoinWith(SubSeq(ws, h + 1, Len(ws)), sep)

(***************************************************************************)
(* Keyword Hint Extractor: detect_output_format                            *)
(***************************************************************************)

\* "таблица", "table", "таблицу", "таблицей", "в таблице", "как таблица",
\* "покажи таблицу", "табличный", "табличный формат"
table_keywords ==
  << <<1090, 1072, 1073, 1083, 1080, 1094, 1072>>,
     <<116, 97, 98, 108, 101>>,
     <<1090, 1072, 1073, 1083, 1080, 1094, 1091>>,
     <<1090, 1072, 1073, 1083, 1080, 1094, 1077, 1081>>,
     <<1074, 32, 1090, 1072, 1073, 1083, 1080, 1094, 1077>>,
     <<1082, 1072, 1082, 32, 1090, 1072, 1073, 1083, 1080, 1094, 1072>>,
     <<1087, 1086, 1082, 1072, 1078, 1080, 32, 1090, 1072, 1073, 1083, 1080, 1094, 1091>>,
     <<1090, 1072, 1073, 1083, 1080, 1095, 1085, 1099, 1081>>,
     <<1090, 1072, 1073, 1083, 1080, 1095, 1085, 1099, 1081, 32, 1092, 1086, 1088, 1084, 1072, 1090>> >>

\* "диаграмма", "chart", "график", "графиком", "диаграмму", "диаграммой",
\* "в диаграмме", "как диаграмма", "покажи диаграмму", "визуализация",
\* "визуализацию", "визуализацией", "визуализировать", "графически",
\* "графический", "plot", "график" (listed twice), "нарисуй", "построй",
\* "visualization"
chart_keywords ==
  << <<1076, 1080, 1072, 1075, 1088, 1072, 1084, 1084, 1072>>,
     <<99, 104, 97, 114, 116>>,
     <<1075, 1088, 1072, 1092, 1080, 1082>>,
     <<1075, 1088, 1072, 1092, 1080, 1082, 1086, 1084>>,
     <<1076, 1080, 1072, 1075, 1088, 1072, 1084, 1084, 1091>>,
     <<1076, 1080, 1072, 1075, 1088, 1072, 1084, 1084, 1086, 1081>>,
     <<1074, 32, 1076, 1080, 1072, 1075, 1088, 1072, 1084, 1084, 1077>>,
     <<1082, 1072, 1082, 32, 1076, 1080, 1072, 1075, 1088, 1072, 1084, 1084, 1072>>,
     <<1087, 1086, 1082, 1072, 1078, 1080, 32, 1076, 1080, 1072, 1075, 1088, 1072, 1084, 1084, 1091>>,
     <<1074, 1080, 1079, 1091, 1072, 1083, 1080, 1079, 1072, 1094, 1080, 1103>>,
     <<1074, 1080, 1079, 1091, 1072, 1083, 1080, 1079, 1072, 1094, 1080, 1102>>,
     <<1074, 1080, 1079, 1091, 1072, 1083, 1080, 1079, 1072, 1094, 1080, 1077, 1081>>,
     <<1074, 1080, 1079, 1091, 1072, 1083, 1080, 1079, 1080, 1088, 1086, 1074, 1072, 1090, 1100>>,
     <<1075, 1088, 1072, 1092, 1080, 1095, 1077, 1089, 1082, 1080>>,
     <<1075, 1088, 1072, 1092, 1080, 1095, 1077, 1089, 1082, 1080, 1081>>,
     <<112, 108, 111, 116>>,
     <<1075, 1088, 1072, 1092, 1080, 1082>>,
     <<1085, 1072, 1088, 1080, 1089, 1091, 1081>>,
     <<1087, 1086, 1089, 1090, 1088, 1086, 1081>>,
     <<118, 105, 115, 117, 97, 108, 105, 122, 97, 116, 105, 111, 110>> >>

\* "json"
json_keyword == <<106, 115, 111, 110>>

\* keywords.iter().any(|keyword| text_lower.contains(keyword))
AnyKeyword(text_lower, keywords) ==
  \E k \in 1..Len(keywords) : StrContains(text_lower, keywords[k])

\* a plausible slip: the table branch tested before the chart branch
OutputTypeTableFirst(has_chart, has_table, has_json) ==
  IF has_table THEN "Table"
  ELSE IF has_chart THEN "Chart"
  ELSE IF has_json THEN "Json"
  ELSE "Auto"

\* the if / else-if chain that picks the OutputType
OutputTypeOf(has_chart, has_table, has_json) ==
  IF has_chart THEN "Chart"
  ELSE IF has_table THEN "Table"
  ELSE IF has_json THEN "Json"
  ELSE "Auto"

RECURSIVE KeywordPositions(_, _, _)
\* the while-let loop for one keyword: every (start, end) pushed to to_remove.
\* start is the BYTE offset of the occurrence in text_lower, end is start plus
\* keyword.len() (bytes); search resumes right after the occurrence.
\* search_char is the char index that corresponds to the byte offset search_pos.
KeywordPositions(text_lower, keyword, search_char) ==
  LET pos == StrFind(text_lower, keyword, search_char)
  IN IF pos = 0 THEN <<>>
     ELSE LET actual_pos == ByteOffset(text_lower, pos)
          IN <<[start |-> actual_pos, end |-> actual_pos + ByteLen(keyword)]>>
             \o KeywordPositions(text_lower, keyword, pos + Len(keyword))

RECURSIVE AllPositions(_, _)
\* one for-loop over a keyword list, in list order
AllPositions(text_lower, keywords) ==
  IF keywords = <<>> THEN <<>>
  ELSE KeywordPositions(text_lower, Head(keywords), 1)
       \o AllPositions(text_lower, Tail(keywords))

\* to_remove before sorting: table keywords first, then chart keywords
ToRemove(text_lower) ==
  AllPositions(text_lower, table_keywords) \o AllPositions(text_lower, chart_keywords)

RECURSIVE SortByStartDesc(_)
\* to_remove.sort_by(|a, b| b.0.cmp(&a.0)): stable, descending by start
SortByStartDesc(ps) ==
  IF ps = <<>> THEN <<>>
  ELSE LET e == ps[Len(ps)]
           sorted == SortByStartDesc(SubSeq(ps, 1, Len(ps) - 1))
           k == Cardinality({i \in 1..Len(sorted) : sorted[i].start >= e.start})
       IN SubSeq(sorted, 1, k) \o <<e>> \o SubSeq(sorted, k + 1, Len(sorted))

\* chars().take(n).count()
TakeCount(s, n) == IF n < Len(s) THEN n ELSE Len(s)

\* one iteration of the removal loop: the byte offsets start and end are used
\* as char counts for the drain
RemoveOne(clean, p) ==
  IF p.end <= ByteLen(clean)
  THEN LET start_char == TakeCount(clean, p.start)
           end_char == TakeCount(clean, p.end)
       IN IF end_char <= Len(clean)
          THEN SubSeq(clean, 1, start_char) \o SubSeq(clean, end_char + 1, Len(clean))
          ELSE clean
  ELSE clean

RECURSIVE RemoveAll(_, _)
\* for (start, end) in to_remove { ... }
RemoveAll(clean, ps) ==
  IF ps = <<>> THEN clean ELSE RemoveAll(RemoveOne(clean, Head(ps)), Tail(ps))

\* a plausible slip: the final trims forgotten after the join
NormalizeNoTrim(s) == JoinWith(SplitWhitespace(s), <<32>>)

\* split_whitespace().join(" ").trim().trim_matches(',').trim()
Normalize(s) == Trim(TrimMatches(Trim(JoinWith(SplitWhitespace(s), <<32>>)), 44))

\* detect_output_format(text): the cleaned text, the text as it is right after
\* the removal loop, and the output type
detect_output_format(t) ==
  LET text_lower == ToLowercase(t)
      has_table == AnyKeyword(text_lower, table_keywords)
      has_chart == AnyKeyword(text_lower, chart_keywords)
      removed == RemoveAll(t, SortByStartDesc(ToRemove(text_lower)))
  IN [clean |-> Normalize(removed),
      removed |-> removed,
      kind |-> OutputTypeOf(has_chart, has_table, StrContains(text_lower, json_keyword))]

(***************************************************************************)
(* Action Token Codec: create_suggestions_keyboard, handle_callback        *)
(***************************************************************************)

\* let max_callback_len = 64
max_callback_len == 64

\* let prefix = "query:"
prefix == <<113, 117, 101, 114, 121, 58>>

\* "q:", the reserved hash family
hash_prefix == <<113, 58>>

\* "sql:", what the decoded question is tested against
sql_marker == <<115, 113, 108, 58>>

\* "sql: ", what format!("sql: {}", q) puts in front
sql_injected == <<115, 113, 108, 58, 32>>

\* "..."
ellipsis == <<46, 46, 46>>

\* the UTF-8 bytes of one scalar value
Utf8Encode(c) ==
  IF c < 128 THEN <<c>>
  ELSE IF c < 2048 THEN <<192 + (c \div 64), 128 + (c % 64)>>
  ELSE IF c < 65536 THEN <<224 + (c \div 4096), 128 + ((c \div 64) % 64), 128 + (c % 64)>>
  ELSE <<240 + (c \div 262144), 128 + ((c \div 4096) % 64), 128 + ((c \div 64) % 64),
         128 + (c % 64)>>

RECURSIVE AsBytes(_)
\* str::as_bytes() (concatenated by halves to keep the evaluation shallow)
AsBytes(s) ==
  IF s = <<>> THEN <<>>
  ELSE IF Len(s) = 1 THEN Utf8Encode(s[1])
  ELSE LET h == Len(s) \div 2
       IN AsBytes(SubSeq(s, 1, h)) \o AsBytes(SubSeq(s, h + 1, Len(s)))

\* the number of bytes the sequence that starts with lead byte b takes, 0 when b
\* cannot start a sequence
SeqWidth(b) ==
  IF b < 128 THEN 1
  ELSE IF b >= 192 /\ b < 224 THEN 2
  ELSE IF b >= 224 /\ b < 240 THEN 3
  ELSE IF b >= 240 /\ b < 248 THEN 4
  ELSE 0

IsContinuation(b) == b >= 128 /\ b < 192

\* the scalar value of one well-formed sequence bs
Utf8Decode(bs) ==
  IF Len(bs) = 1 THEN bs[1]
  ELSE IF Len(bs) = 2 THEN (bs[1] - 192) * 64 + (bs[2] - 128)
  ELSE IF Len(bs) = 3 THEN (bs[1] - 224) * 4096 + (bs[2] - 128) * 64 + (bs[3] - 128)
  ELSE (bs[1] - 240) * 262144 + (bs[2] - 128) * 4096 + (bs[3] - 128) * 64 + (bs[4] - 128)

\* the byte slice is well-formed UTF-8: it starts with a lead byte, and every
\* lead byte is followed by exactly the continuation bytes its width asks for
WellFormed(bytes) ==
  /\ bytes # <<>> => ~IsContinuation(bytes[1])
  /\ \A i \in 1..Len(bytes) :
       ~IsContinuation(bytes[i]) =>
         LET w == SeqWidth(bytes[i])
         IN /\ w > 0
            /\ i + w - 1 <= Len(bytes)
            /\ \A k \in (i + 1)..(i + w - 1) : IsContinuation(bytes[k])
            /\ i + w <= Len(bytes) => ~IsContinuation(bytes[i + w])

\* std::str::from_utf8(bytes): Err when a sequence is cut short or starts with
\* a continuation byte, else the chars in order
FromUtf8(bytes) ==
  IF ~WellFormed(bytes) THEN [ok |-> FALSE, str |-> <<>>]
  ELSE LET leads == SelectSeq([i \in 1..Len(bytes) |-> i],
                              LAMBDA i : ~IsContinuation(bytes[i]))
       IN [ok |-> TRUE,
           str |-> [k \in 1..Len(leads) |->
                      Utf8Decode(SubSeq(bytes, leads[k],
                                        leads[k] + SeqWidth(bytes[leads[k]]) - 1))]]

RECURSIVE ShrinkToValid(_, _)
\* while len > 0 && !std::str::from_utf8(&bytes[..len]).is_ok() { len -= 1; }
ShrinkToValid(bytes, len) ==
  IF len > 0 /\ ~FromUtf8(SubSeq(bytes, 1, len)).ok
  THEN ShrinkToValid(bytes, len - 1)
  ELSE len

\* the string cut to at most max_len bytes when it is longer, else unchanged:
\* std::str::from_utf8(&bytes[..len]).unwrap_or("").to_string()
TruncateToBytes(s, max_len) ==
  LET bytes == AsBytes(s)
  IN IF Len(bytes) > max_len
     THEN FromUtf8(SubSeq(bytes, 1, ShrinkToValid(bytes, max_len))).str
     ELSE s

\* a plausible slip: the question appended to the prefix without any cut
CallbackDataUncut(question) == prefix \o question

\* the callback data of one button
CallbackData(question) ==
  LET max_question_len == max_callback_len - ByteLen(prefix)
      truncated_question == TruncateToBytes(question, max_question_len)
      callback_data == prefix \o truncated_question
  IN TruncateToBytes(callback_data, max_callback_len)

\* the visible text of one button
ButtonText(question) ==
  IF Len(question) > 40 THEN SubSeq(question, 1, 37) \o ellipsis ELSE question

\* questions.iter().take(6)
Take(s, n) == SubSeq(s, 1, IF Len(s) < n THEN Len(s) ELSE n)

\* a plausible slip: a button for every question, without take(6)
KeyboardOfAll(questions) ==
  [i \in 1..Len(questions) |->
     [text |-> ButtonText(questions[i]), callback_data |-> CallbackData(questions[i])]]

\* create_suggestions_keyboard(questions): one button per row
create_suggestions_keyboard(questions) ==
  LET shown == Take(questions, 6)
  IN [i \in 1..Len(shown) |->
        [text |-> ButtonText(shown[i]), callback_data |-> CallbackData(shown[i])]]

\* a plausible slip: the "query:" prefix is not stripped from the data
QuestionOfDataUnstripped(data) ==
  IF StartsWith(data, prefix)
  THEN [kind |-> "question",
        question |-> IF ~StartsWith(ToLowercase(data), sql_marker)
                     THEN sql_injected \o data ELSE data]
  ELSE IF StartsWith(data, hash_prefix)
  THEN [kind |-> "hash", question |-> <<>>]
  ELSE [kind |-> "unknown", question |-> <<>>]

\* a plausible slip: the "q:" family is resolved like the "query:" family
QuestionOfDataHashResolved(data) ==
  IF StartsWith(data, prefix) \/ StartsWith(data, hash_prefix)
  THEN LET p == IF StartsWith(data, prefix) THEN prefix ELSE hash_prefix
           q == SubSeq(data, Len(p) + 1, Len(data))
       IN [kind |-> "question",
           question |-> IF ~StartsWith(ToLowercase(q), sql_marker)
                        THEN sql_injected \o q ELSE q]
  ELSE [kind |-> "unknown", question |-> <<>>]

\* handle_callback: the question taken from the callback data; for the "q:"
\* family and for any other data the handler returns without a question
QuestionOfData(data) ==
  IF StartsWith(data, prefix)
  THEN LET q == SubSeq(data, Len(prefix) + 1, Len(data))
       IN [kind |-> "question",
           question |-> IF ~StartsWith(ToLowercase(q), sql_marker)
                        THEN sql_injected \o q ELSE q]
  ELSE IF StartsWith(data, hash_prefix)
  THEN [kind |-> "hash", question |-> <<>>]
  ELSE [kind |-> "unknown", question |-> <<>>]

(***************************************************************************)
(* Result Renderer: format_query_response, escape_html                     *)
(***************************************************************************)

\* '📊 <b>'
lit_headline_open ==
  <<128202, 32, 60, 98, 62>>

\* '</b>\n\n'
lit_headline_close ==
  <<60, 47, 98, 62, 10, 10>>

\* '💡 <b>Основные выводы:</b>\n'
lit_insights_header ==
  <<128161, 32, 60, 98, 62, 1054, 1089, 1085, 1086, 1074, 1085, 1099, 1077, 32, 1074,
    1099, 1074, 1086, 1076, 1099, 58, 60, 47, 98, 62, 10>>

\* '🔴'
lit_high ==
  <<128308>>

\* '🟡'
lit_medium ==
  <<128993>>

\* '🟢'
lit_other ==
  <<128994>>

\* ' <b>'
lit_bold_open ==
  <<32, 60, 98, 62>>

\* '</b>\n'
lit_bold_close_nl ==
  <<60, 47, 98, 62, 10>>

\* '\n\n'
lit_blank_line ==
  <<10, 10>>

\* '📝 <b>Объяснение:</b>\n'
lit_explanation_header ==
  <<128221, 32, 60, 98, 62, 1054, 1073, 1098, 1103, 1089, 1085, 1077, 1085, 1080, 1077,
    58, 60, 47, 98, 62, 10>>

\* '💭 <b>Рекомендуемые вопросы:</b>\n'
lit_suggestions_header ==
  <<128173, 32, 60, 98, 62, 1056, 1077, 1082, 1086, 1084, 1077, 1085, 1076, 1091, 1077,
    1084, 1099, 1077, 32, 1074, 1086, 1087, 1088, 1086, 1089, 1099, 58, 60, 47, 98, 62,
    10>>

\* '<i>Нажмите на кнопку ниже, чтобы выполнить запрос</i>\n\n'
lit_suggestions_hint ==
  <<60, 105, 62, 1053, 1072, 1078, 1084, 1080, 1090, 1077, 32, 1085, 1072, 32, 1082,
    1085, 1086, 1087, 1082, 1091, 32, 1085, 1080, 1078, 1077, 44, 32, 1095, 1090, 1086,
    1073, 1099, 32, 1074, 1099, 1087, 1086, 1083, 1085, 1080, 1090, 1100, 32, 1079,
    1072, 1087, 1088, 1086, 1089, 60, 47, 105, 62, 10, 10>>

\* '. '
lit_dot_space ==
  <<46, 32>>

\* '\n'
lit_newline ==
  <<10>>

\* '📋 <b>Результаты ('
lit_results_open ==
  <<128203, 32, 60, 98, 62, 1056, 1077, 1079, 1091, 1083, 1100, 1090, 1072, 1090, 1099,
    32, 40>>

\* ')</b>:\n\n'
lit_results_close ==
  <<41, 60, 47, 98, 62, 58, 10, 10>>

\* '\n... и еще '
lit_more_open ==
  <<10, 46, 46, 46, 32, 1080, 32, 1077, 1097, 1077, 32>>

\* ' строк(и)\n'
lit_more_close ==
  <<32, 1089, 1090, 1088, 1086, 1082, 40, 1080, 41, 10>>

\* '📊 <b>Найдено результатов:</b> '
lit_found ==
  <<128202, 32, 60, 98, 62, 1053, 1072, 1081, 1076, 1077, 1085, 1086, 32, 1088, 1077,
    1079, 1091, 1083, 1100, 1090, 1072, 1090, 1086, 1074, 58, 60, 47, 98, 62, 32>>

\* '📭 Нет данных для отображения\n'
lit_no_data ==
  <<128237, 32, 1053, 1077, 1090, 32, 1076, 1072, 1085, 1085, 1099, 1093, 32, 1076,
    1083, 1103, 32, 1086, 1090, 1086, 1073, 1088, 1072, 1078, 1077, 1085, 1080, 1103, 10>>

\* '\n⏱ <b>Время выполнения:</b> '
lit_timing_open ==
  <<10, 9201, 32, 60, 98, 62, 1042, 1088, 1077, 1084, 1103, 32, 1074, 1099, 1087, 1086,
    1083, 1085, 1077, 1085, 1080, 1103, 58, 60, 47, 98, 62, 32>>

\* 'ms'
lit_ms ==
  <<109, 115>>

\* ' (из кэша)'
lit_cached ==
  <<32, 40, 1080, 1079, 32, 1082, 1101, 1096, 1072, 41>>

\* '&amp;'
lit_amp ==
  <<38, 97, 109, 112, 59>>

\* '&lt;'
lit_lt ==
  <<38, 108, 116, 59>>

\* '&gt;'
lit_gt ==
  <<38, 103, 116, 59>>

\* Option values
None == [some |-> FALSE, val |-> <<>>]
Some(x) == [some |-> TRUE, val |-> x]

\* str::replace(from, to) for a one-char pattern
ReplaceChar(s, from, to) ==
  Flatten([i \in 1..Len(s) |-> IF s[i] = from THEN to ELSE <<s[i]>>])

\* a plausible slip: the same three replacements with & replaced last
EscapeAmpLast(s) == ReplaceChar(ReplaceChar(ReplaceChar(s, 60, lit_lt), 62, lit_gt), 38, lit_amp)

\* escape_html: & first, then <, then >
escape_html(s) == ReplaceChar(ReplaceChar(ReplaceChar(s, 38, lit_amp), 60, lit_lt), 62, lit_gt)

RECURSIVE Decimal(_)
\* format!("{}", n) for an unsigned integer
Decimal(n) == IF n < 10 THEN <<48 + n>> ELSE Decimal(n \div 10) \o <<48 + (n % 10)>>

\* the glyph for insight.significance ("High", "Medium", anything else)
SignificanceEmoji(significance) ==
  IF significance = "High" THEN lit_high
  ELSE IF significance = "Medium" THEN lit_medium
  ELSE lit_other

\* one insight of the "for insight in &analysis.insights" loop
InsightBlock(insight) ==
  SignificanceEmoji(insight.significance) \o lit_bold_open \o escape_html(insight.title)
    \o lit_bold_close_nl \o escape_html(insight.description) \o lit_blank_line

\* the analysis section
AnalysisSection(analysis) ==
  lit_headline_open \o escape_html(analysis.headline) \o lit_headline_close
    \o (IF analysis.insights # <<>>
        THEN lit_insights_header
             \o Flatten([i \in 1..Len(analysis.insights) |-> InsightBlock(analysis.insights[i])])
        ELSE <<>>)
    \o lit_explanation_header \o escape_html(analysis.explanation) \o lit_blank_line
    \o (IF analysis.suggested_questions # <<>>
        THEN lit_suggestions_header \o lit_suggestions_hint
             \o Flatten([i \in 1..Len(analysis.suggested_questions) |->
                           Decimal(i) \o lit_dot_space
                             \o escape_html(analysis.suggested_questions[i]) \o lit_newline])
             \o lit_newline
        ELSE <<>>)

\* a plausible slip: the notice counts the rows beyond the ten lines shown
DataSectionMinusTen(response) ==
  IF response.table.some
  THEN IF response.table.val # <<>>
       THEN lit_results_open \o Decimal(response.row_count) \o lit_results_close
            \o (IF response.row_count <= 10
                THEN response.table.val
                ELSE JoinWith(Take(Lines(response.table.val, 10), 10), lit_newline)
                     \o lit_more_open \o Decimal(response.row_count - 10) \o lit_more_close)
            \o lit_newline
       ELSE <<>>
  ELSE IF response.data # <<>> /\ response.row_count > 1
  THEN lit_found \o Decimal(response.row_count) \o lit_blank_line
  ELSE IF response.data = <<>>
  THEN lit_no_data
  ELSE <<>>

\* the table / "N results" / "no data" section
DataSection(response) ==
  IF response.table.some
  THEN IF response.table.val # <<>>
       THEN lit_results_open \o Decimal(response.row_count) \o lit_results_close
            \o (IF response.row_count <= 10
                THEN response.table.val
                ELSE JoinWith(Take(Lines(response.table.val, 10), 10), lit_newline)
                     \o lit_more_open \o Decimal(response.row_count - 5) \o lit_more_close)
            \o lit_newline
       ELSE <<>>
  ELSE IF response.data # <<>> /\ response.row_count > 1
  THEN lit_found \o Decimal(response.row_count) \o lit_blank_line
  ELSE IF response.data = <<>>
  THEN lit_no_data
  ELSE <<>>

\* a plausible slip: the cache suffix is appended whatever response.cached is
TimingLineAlwaysCached(response) ==
  lit_timing_open \o Decimal(response.execution_time_ms) \o lit_ms \o lit_cached

\* the trailing timing line
TimingLine(response) ==
  lit_timing_open \o Decimal(response.execution_time_ms) \o lit_ms
    \o (IF response.cached THEN lit_cached ELSE <<>>)

\* a plausible slip: the early return for text_response is missing, the other
\* sections follow the escaped answer
FormatWithoutEarlyReturn(response) ==
  (IF response.text_response.some THEN escape_html(response.text_response.val) ELSE <<>>)
    \o (IF response.analysis.some THEN AnalysisSection(response.analysis.val) ELSE <<>>)
    \o DataSection(response)
    \o TimingLine(response)

\* format_query_response(response)
format_query_response(response) ==
  IF response.text_response.some
  THEN escape_html(response.text_response.val)
  ELSE (IF response.analysis.some THEN AnalysisSection(response.analysis.val) ELSE <<>>)
       \o DataSection(response)
       \o TimingLine(response)

(***************************************************************************)
(* Message Segmenter: the line-accumulating split of handle_message and    *)
(* process_query_response                                                  *)
(*                                                                         *)
(* The split looks at a report only through its byte length, its newlines  *)
(* and its emptiness, so a report is kept as a sequence of runs: a newline *)
(* (1 byte) or the body of line number id (len >= 1 bytes, no newline).    *)
(* An empty line has no run, so the empty string is the empty sequence.    *)
(***************************************************************************)

\* if formatted.len() > 4096
hard_limit == 4096

\* if current.len() + line.len() + 1 > 4000
soft_limit == 4000

\* '\n'
NL == [id |-> 0, len |-> 1]

\* the body of line number id, len bytes long
Body(id, len) == [id |-> id, len |-> len]

RECURSIVE RunsLen(_)
\* String::len() of a string kept as runs
RunsLen(s) ==
  IF s = <<>> THEN 0
  ELSE IF Len(s) = 1 THEN s[1].len
  ELSE LET h == Len(s) \div 2
       IN RunsLen(SubSeq(s, 1, h)) + RunsLen(SubSeq(s, h + 1, Len(s)))

\* a plausible slip: the byte of the joining newline is not counted
ShouldCloseNoNewline(current_len, line_len) == current_len + line_len > soft_limit

\* current.len() + line.len() + 1 > 4000
ShouldClose(current_len, line_len) == current_len + line_len + 1 > soft_limit

\* the body of "for line in formatted.lines()": st is [current, chunks]
PushLine(st, line) ==
  LET close == ShouldClose(RunsLen(st.current), RunsLen(line)) /\ st.current # <<>>
      chunks1 == IF close THEN Append(st.chunks, st.current) ELSE st.chunks
      current1 == IF close THEN <<>> ELSE st.current
      current2 == IF current1 # <<>> THEN Append(current1, NL) ELSE current1
  IN [current |-> current2 \o line, chunks |-> chunks1]

\* if !current.is_empty() { chunks.push(current); }
FlushLast(st) == IF st.current # <<>> THEN Append(st.chunks, st.current) ELSE st.chunks

\* a plausible slip: the chunks are sent last to first
ChunkMessagesReversed(chunks, whole) ==
  IF chunks = <<>> THEN <<whole>> ELSE [i \in 1..Len(chunks) |-> chunks[Len(chunks) + 1 - i]]

\* the texts sent for the chunks: all but the last, then
\* chunks.last().unwrap_or(&formatted)
ChunkMessages(chunks, whole) ==
  IF chunks = <<>> THEN <<whole>> ELSE chunks

(***************************************************************************)
(* Chart Artifact Builder: generate_chart_image and the file it goes by    *)
(***************************************************************************)

\* the interactions handled at the same time
MaxTasks == 2

\* one task per interaction; all run in the one bot process
Tasks == 1..MaxTasks

\* the bytes of a PNG: what was drawn ("blank": the canvas filled white,
\* "partial": a drawing that failed midway, "chart": the whole chart) and the
\* task whose chart description it was drawn from
Png(task, picture) == <<[task |-> task, picture |-> picture]>>

\* Vec::new()
NoBytes == <<>>

\* temp_dir().join(format!("chart_{}.png", std::process::id())): the path holds
\* the process id only, so every task of the process names the same file
NoFile == [exists |-> FALSE, bytes |-> NoBytes, by |-> 0, stage |-> "none"]

\* the file after task p wrote bytes to it from generate_chart_image
\* ("generate") or from the handler ("handler")
WrittenFile(bytes, p, stage) == [exists |-> TRUE, bytes |-> bytes, by |-> p, stage |-> stage]

\* the BitMapBackend goes out of scope: it presents its canvas, i.e. writes the
\* PNG of what was drawn to its path (the code never presents explicitly: the
\* file fs::read reads at line 165 is the one written here)
Present(bytes, p) == WrittenFile(bytes, p, "generate")

\* chart_data.datasets[0] at line 65 panics on an empty datasets vector
IndexPanics(chart) == chart.datasets = 0

\* label_count == 0 at line 68
NoLabels(chart) == chart.labels = 0

(***************************************************************************)
(* Interaction handlers: handle_message, its menu-button branch and         *)
(* handle_callback, as far as the backend calls and the replies go          *)
(***************************************************************************)

\* "syntax error"
kw_syntax_error ==
  <<115, 121, 110, 116, 97, 120, 32, 101, 114, 114, 111, 114>>

\* "SQL"
kw_sql == <<83, 81, 76>>

\* "database"
kw_database == <<100, 97, 116, 97, 98, 97, 115, 101>>

\* a plausible slip: only "SQL" is looked for
IsSqlErrorSqlOnly(error_str) == StrContains(error_str, kw_sql)

\* error_str.contains("syntax error") || error_str.contains("SQL") ||
\* error_str.contains("database")
IsSqlError(error_str) ==
  \/ StrContains(error_str, kw_syntax_error)
  \/ StrContains(error_str, kw_sql)
  \/ StrContains(error_str, kw_database)

\* what the Err arm of the query does on each path: handle_message tries the
\* chat API for an SQL-flavoured failure and else sends the generic retry
\* suggestion; the menu-button branch and handle_callback send the failure text
ErrorArm(kind, error_str) ==
  IF kind = "message"
  THEN IF IsSqlError(error_str) THEN "fallback" ELSE "retry"
  ELSE "error text"

(***************************************************************************)
(* One interaction end to end: the request a handler builds and the events *)
(* it sends out, for handle_message, its menu-button branch (with           *)
(* process_query_response) and handle_callback                              *)
(***************************************************************************)

\* "с анализом"
phrase_with_analysis ==
  <<1089, 32, 1072, 1085, 1072, 1083, 1080, 1079, 1086, 1084>>

\* "анализ"
phrase_analysis == <<1072, 1085, 1072, 1083, 1080, 1079>>

\* "📊 Показать больше данных" and "📈 С анализом", the standard suggestions
default_suggestions ==
  <<
     <<128202, 32, 1055, 1086, 1082, 1072, 1079, 1072, 1090, 1100, 32, 1073, 1086, 1083,
       1100, 1096, 1077, 32, 1076, 1072, 1085, 1085, 1099, 1093>>,
     <<128200, 32, 1057, 32, 1072, 1085, 1072, 1083, 1080, 1079, 1086, 1084>>
  >>

RECURSIVE ReplaceWithEmpty(_, _)
\* str::replace(pat, ""): every non-overlapping occurrence, left to right
ReplaceWithEmpty(s, pat) ==
  IF Len(s) < Len(pat) THEN s
  ELSE IF MatchAt(s, pat, 1) THEN ReplaceWithEmpty(SubSeq(s, Len(pat) + 1, Len(s)), pat)
  ELSE <<s[1]>> \o ReplaceWithEmpty(Tail(s), pat)

\* the QueryRequest of handle_message for a typed text (lines 84-105)
RequestOfMessage(typed) ==
  LET d == detect_output_format(typed)
      lower == ToLowercase(d.clean)
  IN [question |-> Trim(ReplaceWithEmpty(ReplaceWithEmpty(d.clean, phrase_with_analysis),
                                          phrase_analysis)),
      include_analysis |-> StrContains(lower, phrase_with_analysis)
                             \/ StrContains(lower, phrase_analysis),
      use_cache |-> TRUE, include_sql |-> FALSE, output_type |-> d.kind]

\* the QueryRequest of the menu-button branch for the button's query (lines 42-51)
RequestOfMenu(query) ==
  LET d == detect_output_format(query)
  IN [question |-> d.clean, include_analysis |-> TRUE,
      use_cache |-> TRUE, include_sql |-> FALSE, output_type |-> d.kind]

\* the QueryRequest of handle_callback for the decoded question (bot.rs:153-160)
RequestOfCallback(question) ==
  [question |-> question, include_analysis |-> TRUE,
   use_cache |-> TRUE, include_sql |-> FALSE, output_type |-> "Auto"]

\* an outbound event: the "processing" notice, its deletion, the CSV document,
\* the chart photo, a text message (with its body and keyboard) or a failure
\* reply; ok tells whether the transport took it
Event(kind, body, buttons, ok) == [kind |-> kind, body |-> body, keyboard |-> buttons, ok |-> ok]

\* the keyboard a handler builds for a response: the analysis's suggestions,
\* else (not in handle_callback) the standard ones when there are rows
KeyboardFor(path, resp) ==
  IF resp.suggestions # <<>> THEN create_suggestions_keyboard(resp.suggestions)
  ELSE IF path # "callback" /\ resp.data # "empty" /\ resp.row_count > 0
  THEN create_suggestions_keyboard(default_suggestions)
  ELSE <<>>

RECURSIVE SplitFrom(_, _)
\* the loop "for line in formatted.lines()" over the lines ls, from state st
SplitFrom(st, ls) == IF ls = <<>> THEN st ELSE SplitFrom(PushLine(st, Head(ls)), Tail(ls))

\* the chunks of a report longer than the hard limit
ChunksOf(formatted) ==
  FlushLast(SplitFrom([current |-> <<>>, chunks |-> <<>>], Lines(formatted, NL)))

\* the text messages that carry the report: handle_message and
\* process_query_response split a report over the hard limit and put the
\* keyboard on the last message; handle_callback sends the report whole
TextMessages(path, formatted, buttons) ==
  LET texts == IF path # "callback" /\ RunsLen(formatted) > hard_limit
               THEN ChunkMessages(ChunksOf(formatted), formatted)
               ELSE <<formatted>>
  IN [i \in 1..Len(texts) |->
        Event("text", texts[i], IF i = Len(texts) THEN buttons ELSE <<>>, TRUE)]

\* the CSV step fails hard (`?`) in handle_message and softly (if let Ok / let _)
\* in process_query_response and handle_callback
CsvIsStrict(path) == path = "message"

(***************************************************************************)
(* State                                                                   *)
(***************************************************************************)

VARIABLES
  \* Keyword Hint Extractor
  text,          \* the raw question text passed to detect_output_format
  x_pc,          \* "idle" | "start" | "done"
  removed_text,  \* clean_text as it is right after the removal loop
  clean_text,    \* the cleaned text returned
  output_type,   \* the OutputType returned
  \* Action Token Codec
  questions,     \* the suggested questions passed to create_suggestions_keyboard
  c_pc,          \* "idle" | "start" | "shown" | "decoded"
  keyboard,      \* the buttons built: [text, callback_data] each
  pressed,       \* index of the button the user pressed, 0 before
  decoded,       \* what handle_callback made of the pressed button's data
  \* Result Renderer
  response,      \* the QueryResponse received from the backend
  r_pc,          \* "idle" | "start" | "done"
  formatted,     \* the String returned by format_query_response
  \* Message Segmenter
  report,        \* the formatted report to send, kept as runs
  s_pc,          \* "idle" | "start" | "split" | "done"
  lines,         \* the lines formatted.lines() has yet to yield
  current,       \* the chunk being accumulated
  chunks,        \* the chunks closed so far
  sent,          \* the text messages sent, in order
  \* HTML escaping
  e_text,        \* a free text the backend put into a response
  e_field,       \* the field of the response that carries it
  e_pc,          \* "idle" | "start" | "escaped" | "done"
  e_escaped,     \* escape_html(e_text)
  e_formatted,   \* the report of the response that carries e_text in e_field
  \* Chart Artifact Builder and its callers, one task per interaction
  g_chart,       \* task -> the ChartData of its response
  g_pc,          \* task -> where the task stands
  g_file,        \* the file temp_dir()/chart_{pid}.png, one per process
  g_buffer,      \* task -> the bytes generate_chart_image read / returned
  g_result,      \* task -> "none" | "ok" | "err" | "panic": how the call ended
  g_photo,       \* task -> the photo uploaded by send_photo, if any
  g_log,         \* task -> the failures logged for the chart
  g_report,      \* task -> the textual report has been sent
  \* Interaction handlers and the backend
  h_kind,        \* "message" | "menu" | "callback"
  h_data,        \* the callback data (callback only)
  h_pc,          \* where the handler stands
  h_error,       \* the message of the backend failure, if the query failed
  h_calls,       \* the backend calls made, in order: "query" | "chat"
  h_replies,     \* the messages the handler sent to the chat, in order
  h_result,      \* "none" | "ok" | "err": what the handler returned
  \* One interaction end to end
  i_path,        \* "message" | "menu" | "callback"
  i_input,       \* the typed text, the menu button's query or the callback data
  i_pc,          \* where the handler stands
  i_request,     \* the QueryRequest sent to the backend, if any
  i_backend,     \* what the backend answered: a response or a failure
  i_outbox,      \* the events sent to the transport, in order
  i_csv,         \* "none" | "write failed" | "send failed" | "sent"
  i_csv_file,    \* the temporary CSV file is on disk
  i_chart,       \* "none" | "failed" | "send failed" | "sent" | "panicked"
  i_returned     \* "none" | "ok" | "err" | "panic": how the handler ended

xvars == <<text, x_pc, removed_text, clean_text, output_type>>
cvars == <<questions, c_pc, keyboard, pressed, decoded>>

rvars == <<response, r_pc, formatted>>

svars == <<report, s_pc, lines, current, chunks, sent>>

evars == <<e_text, e_field, e_pc, e_escaped, e_formatted>>

gvars == <<g_chart, g_pc, g_file, g_buffer, g_result, g_photo, g_log, g_report>>

hvars == <<h_kind, h_data, h_pc, h_error, h_calls, h_replies, h_result>>

ivars == <<i_path, i_input, i_pc, i_request, i_backend, i_outbox, i_csv, i_csv_file, i_chart, i_returned>>

vars == <<xvars, cvars, rvars, svars, evars, gvars, hvars, ivars>>

ExtractIdle ==
  /\ text = <<>>
  /\ x_pc = "idle"
  /\ removed_text = <<>>
  /\ clean_text = <<>>
  /\ output_type = "Auto"

CodecIdle ==
  /\ questions = <<>>
  /\ c_pc = "idle"
  /\ keyboard = <<>>
  /\ pressed = 0
  /\ decoded = [kind |-> "unknown", question |-> <<>>]

\* a QueryResponse with nothing in it
EmptyResponse ==
  [text_response |-> None, analysis |-> None, table |-> None, data |-> <<>>,
   row_count |-> 0, execution_time_ms |-> 0, cached |-> FALSE]

RenderIdle ==
  /\ response = EmptyResponse
  /\ r_pc = "idle"
  /\ formatted = <<>>

SegmentIdle ==
  /\ report = <<>>
  /\ s_pc = "idle"
  /\ lines = <<>>
  /\ current = <<>>
  /\ chunks = <<>>
  /\ sent = <<>>

EscapeIdle ==
  /\ e_text = <<>>
  /\ e_field = "narrative"
  /\ e_pc = "idle"
  /\ e_escaped = <<>>
  /\ e_formatted = <<>>

\* a ChartData without labels and datasets
EmptyChart == [labels |-> 0, datasets |-> 0]

ChartIdle ==
  /\ g_chart = [p \in Tasks |-> EmptyChart]
  /\ g_pc = [p \in Tasks |-> "idle"]
  /\ g_file = NoFile
  /\ g_buffer = [p \in Tasks |-> NoBytes]
  /\ g_result = [p \in Tasks |-> "none"]
  /\ g_photo = [p \in Tasks |-> None]
  /\ g_log = [p \in Tasks |-> {}]
  /\ g_report = [p \in Tasks |-> FALSE]

DispatchIdle ==
  /\ h_kind = "message"
  /\ h_data = <<>>
  /\ h_pc = "idle"
  /\ h_error = None
  /\ h_calls = <<>>
  /\ h_replies = <<>>
  /\ h_result = "none"

\* no answer from the backend yet
NoAnswer == [ok |-> FALSE, response |-> <<>>, error |-> <<>>]

InteractionIdle ==
  /\ i_path = "message"
  /\ i_input = <<>>
  /\ i_pc = "idle"
  /\ i_request = None
  /\ i_backend = NoAnswer
  /\ i_outbox = <<>>
  /\ i_csv = "none"
  /\ i_csv_file = FALSE
  /\ i_chart = "none"
  /\ i_returned = "none"

(***************************************************************************)
(* Specification of the Keyword Hint Extractor                             *)
(***************************************************************************)

\* the longest text is made of this many fragments
MaxPieces == 3

\* fragments the input texts are made of: " ", ",", ", ", "x", "я", "Table",
\* "Chart", "Json", "Таблица", "график", "plo"
Pieces ==
  { <<32>>, <<44>>, <<44, 32>>, <<120>>, <<1103>>,
    <<84, 97, 98, 108, 101>>, <<67, 104, 97, 114, 116>>, <<74, 115, 111, 110>>,
    <<1058, 1072, 1073, 1083, 1080, 1094, 1072>>,
    <<1075, 1088, 1072, 1092, 1080, 1082>>,
    <<112, 108, 111>> }

\* "покажи топ городов таблица"
ScenarioText ==
  <<1087, 1086, 1082, 1072, 1078, 1080, 32, 1090, 1086, 1087, 32, 1075, 1086, 1088,
    1086, 1076, 1086, 1074, 32, 1090, 1072, 1073, 1083, 1080, 1094, 1072>>

\* "покажи топ городов"
ScenarioClean ==
  <<1087, 1086, 1082, 1072, 1078, 1080, 32, 1090, 1086, 1087, 32, 1075, 1086, 1088,
    1086, 1076, 1086, 1074>>

ExtractInputs ==
  {Flatten(ps) : ps \in UNION {[1..n -> Pieces] : n \in 0..MaxPieces}} \cup {ScenarioText}

InitExtract ==
  /\ text \in ExtractInputs
  /\ x_pc = "start"
  /\ removed_text = <<>>
  /\ clean_text = <<>>
  /\ output_type = "Auto"
  /\ CodecIdle
  /\ RenderIdle
  /\ SegmentIdle
  /\ EscapeIdle
  /\ ChartIdle
  /\ DispatchIdle
  /\ InteractionIdle

\* one call of detect_output_format(text)
DetectOutputFormat ==
  /\ x_pc = "start"
  /\ LET r == detect_output_format(text)
     IN /\ removed_text' = r.removed
        /\ clean_text' = r.clean
        /\ output_type' = r.kind
  /\ x_pc' = "done"
  /\ UNCHANGED <<text, cvars, rvars, svars, evars, gvars, hvars, ivars>>

NextExtract == DetectOutputFormat

SpecExtract == InitExtract /\ [][NextExtract]_vars

(***************************************************************************)
(* Properties of the Keyword Hint Extractor                                *)
(***************************************************************************)

\* phrase occurs in t, compared case-insensitively, at char index i
PhraseAt(t, phrase, i) ==
  /\ i + Len(phrase) - 1 <= Len(t)
  /\ \A j \in 1..Len(phrase) : LowerChar(t[i + j - 1]) = phrase[j]

ContainsPhrase(t, phrase) == \E i \in 1..Len(t) : PhraseAt(t, phrase, i)

HasChartHint(t) == \E k \in 1..Len(chart_keywords) : ContainsPhrase(t, chart_keywords[k])
HasTableHint(t) == \E k \in 1..Len(table_keywords) : ContainsPhrase(t, table_keywords[k])
HasJson(t) == ContainsPhrase(t, json_keyword)

\* C1: the kind is Chart if a chart-hint phrase occurs (case-insensitively),
\* otherwise Table if a table-hint phrase occurs, otherwise Json if "json"
\* occurs, otherwise Auto; so a text with both a chart and a table hint is Chart.
C1_KindOrder ==
  x_pc = "done" =>
    /\ HasChartHint(text) => output_type = "Chart"
    /\ (~HasChartHint(text) /\ HasTableHint(text)) => output_type = "Table"
    /\ (~HasChartHint(text) /\ ~HasTableHint(text) /\ HasJson(text)) => output_type = "Json"
    /\ (~HasChartHint(text) /\ ~HasTableHint(text) /\ ~HasJson(text)) => output_type = "Auto"

\* a text with both a chart hint and a table hint has been classified as Chart
C1_Witness ==
  x_pc = "done" /\ HasChartHint(text) /\ HasTableHint(text) /\ output_type = "Chart"

NoRecognizedPhrase(t) == ~HasChartHint(t) /\ ~HasTableHint(t) /\ ~HasJson(t)

RECURSIVE StripEdges(_)
\* s without the commas and whitespace that dangle at either end
StripEdges(s) ==
  IF s = <<>> THEN s
  ELSE IF Head(s) = 44 \/ IsWhitespace(Head(s)) THEN StripEdges(Tail(s))
  ELSE IF s[Len(s)] = 44 \/ IsWhitespace(s[Len(s)]) THEN StripEdges(SubSeq(s, 1, Len(s) - 1))
  ELSE s

\* the input with every run of whitespace collapsed to one space, and trimmed
Collapsed(t) == JoinWith(SplitWhitespace(t), <<32>>)

StartsOrEndsWithComma(s) == s # <<>> /\ (Head(s) = 44 \/ s[Len(s)] = 44)

\* C2: for a text with no recognized phrase the kind is Auto and the clean text
\* is the input with whitespace runs collapsed and trimmed, with no comma left
\* dangling at its start or end.
C2_NoPhraseNormalized ==
  (x_pc = "done" /\ NoRecognizedPhrase(text)) =>
    /\ output_type = "Auto"
    /\ clean_text = StripEdges(Collapsed(text))
    /\ ~StartsOrEndsWithComma(clean_text)

\* C3: "покажи топ городов таблица" gives the clean text "покажи топ городов"
\* and the kind Table.
C3_Scenario ==
  (x_pc = "done" /\ text = ScenarioText) =>
    (clean_text = ScenarioClean /\ output_type = "Table")

\* char index i of t lies inside an occurrence of a table or chart phrase
InMatchedOccurrence(t, i) ==
  \E kws \in {table_keywords, chart_keywords} :
    \E k \in 1..Len(kws) :
      \E st \in 1..Len(t) :
        PhraseAt(t, kws[k], st) /\ st <= i /\ i < st + Len(kws[k])

RECURSIVE KeepOutside(_, _)
\* the chars of t from index i on that lie outside every matched occurrence
KeepOutside(t, i) ==
  IF i > Len(t) THEN <<>>
  ELSE (IF InMatchedOccurrence(t, i) THEN <<>> ELSE <<t[i]>>) \o KeepOutside(t, i + 1)

\* C4: right after the removal loop the text consists of exactly the input
\* codepoints that lie outside every matched phrase occurrence, in order.
C4_RemovesExactlyMatches ==
  x_pc = "done" => removed_text = KeepOutside(text, 1)

(***************************************************************************)
(* Specification of the Action Token Codec                                 *)
(***************************************************************************)

\* the longest tail of mixed-width chars that ends a question
MaxTail == 2

\* the longest list of suggested questions
MaxQuestions == 7

\* how a question starts: "", "sql:", "SQL: ", "Sq"
Heads == { <<>>, <<115, 113, 108, 58>>, <<83, 81, 76, 58, 32>>, <<83, 113>> }

\* how many times "a" is repeated after the head
FillLens == {0} \cup (50..58)

\* the chars of a tail: "x" (1 byte), "я" (2 bytes), "€" (3 bytes), "😀" (4 bytes)
TailChars == {120, 1103, 8364, 128512}

Tails == UNION {[1..n -> TailChars] : n \in 0..MaxTail}

CodecQuestions ==
  {h \o [i \in 1..n |-> 97] \o t : h \in Heads, n \in FillLens, t \in Tails}

\* a list of n distinct one-char questions "a", "b", ...
ShortQuestions(n) == [i \in 1..n |-> <<96 + i>>]

CodecInputs ==
  {<<q>> : q \in CodecQuestions} \cup {ShortQuestions(n) : n \in 0..MaxQuestions}

InitCodec ==
  /\ questions \in CodecInputs
  /\ c_pc = "start"
  /\ keyboard = <<>>
  /\ pressed = 0
  /\ decoded = [kind |-> "unknown", question |-> <<>>]
  /\ ExtractIdle
  /\ RenderIdle
  /\ SegmentIdle
  /\ EscapeIdle
  /\ ChartIdle
  /\ DispatchIdle
  /\ InteractionIdle

\* the reply is sent with the keyboard built from the suggested questions
CreateSuggestionsKeyboard ==
  /\ c_pc = "start"
  /\ keyboard' = create_suggestions_keyboard(questions)
  /\ c_pc' = "shown"
  /\ UNCHANGED <<questions, pressed, decoded, xvars, rvars, svars, evars, gvars, hvars, ivars>>

\* the user presses button i: the transport hands its callback data back to
\* handle_callback, which derives the question to run
PressButton(i) ==
  /\ c_pc = "shown"
  /\ i \in 1..Len(keyboard)
  /\ pressed' = i
  /\ decoded' = QuestionOfData(keyboard[i].callback_data)
  /\ c_pc' = "decoded"
  /\ UNCHANGED <<questions, keyboard, xvars, rvars, svars, evars, gvars, hvars, ivars>>

NextCodec ==
  \/ CreateSuggestionsKeyboard
  \/ \E i \in 1..Len(keyboard) : PressButton(i)

SpecCodec == InitCodec /\ [][NextCodec]_vars

(***************************************************************************)
(* Properties of the Action Token Codec                                    *)
(***************************************************************************)

\* p is q cut at a codepoint boundary
IsCodepointPrefix(p, q) == \E n \in 0..Len(q) : p = SubSeq(q, 1, n)

StartsWithSqlCI(s) ==
  /\ Len(s) >= Len(sql_marker)
  /\ \A j \in 1..Len(sql_marker) : LowerChar(s[j]) = sql_marker[j]

\* C5: decoding the token that encodes q gives a prefix of q cut on a codepoint
\* boundary (so never longer than q), with "sql: " put in front exactly when
\* that prefix does not already start with "sql:" case-insensitively.
C5_RoundTrip ==
  c_pc = "decoded" =>
    /\ decoded.kind = "question"
    /\ \E n \in 0..Len(questions[pressed]) :
         LET p == SubSeq(questions[pressed], 1, n)
         IN /\ ByteLen(p) <= ByteLen(questions[pressed])
            /\ decoded.question = IF StartsWithSqlCI(p) THEN p ELSE sql_injected \o p

\* a question longer than the budget was cut in front of a multi-byte char that
\* straddles the budget, and the marker was injected
C5_Witness ==
  /\ c_pc = "decoded"
  /\ ByteLen(questions[pressed]) > max_callback_len - ByteLen(prefix)
  /\ \E n \in 1..(Len(questions[pressed]) - 1) :
       /\ decoded.question = sql_injected \o SubSeq(questions[pressed], 1, n)
       /\ ByteLen(SubSeq(questions[pressed], 1, n)) < max_callback_len - ByteLen(prefix)
       /\ Utf8Len(questions[pressed][n + 1]) > 1

\* C6: every action token is at most 64 bytes long, starts with "query:" and
\* continues with the question cut on one of its codepoint boundaries.
C6_TokenBounded ==
  c_pc \in {"shown", "decoded"} =>
    \A i \in 1..Len(keyboard) :
      /\ ByteLen(keyboard[i].callback_data) <= 64
      /\ StartsWith(keyboard[i].callback_data, prefix)
      /\ IsCodepointPrefix(
           SubSeq(keyboard[i].callback_data, Len(prefix) + 1,
                  Len(keyboard[i].callback_data)),
           questions[i])

\* a token of exactly 64 bytes was built from a longer question with 1- to
\* 4-byte chars
C6_Witness ==
  /\ c_pc = "shown"
  /\ \E i \in 1..Len(keyboard) :
       /\ ByteLen(keyboard[i].callback_data) = 64
       /\ ByteLen(questions[i]) > 58
       /\ \E k \in 1..Len(questions[i]) : Utf8Len(questions[i][k]) = 4

(***************************************************************************)
(* Specification of the Result Renderer                                    *)
(***************************************************************************)

\* the most records the data of a response holds
MaxRows == 2

\* the text_response values: absent, "", "ok", "a<b&c>"
TextResponses == {None, Some(<<>>), Some(<<111, 107>>), Some(<<97, 60, 98, 38, 99, 62>>)}

\* an analysis without insights and suggestions: headline "H&", explanation "E<"
PlainAnalysis ==
  [headline |-> <<72, 38>>, insights |-> <<>>, explanation |-> <<69, 60>>,
   suggested_questions |-> <<>>]

\* an analysis with three insights ("t>" / "d&" with the significances High,
\* Medium and low) and the suggestions "q<" and "p"
FullAnalysis ==
  [headline |-> <<60, 104, 62>>,
   insights |-> << [title |-> <<116, 62>>, description |-> <<100, 38>>, significance |-> "High"],
                   [title |-> <<116>>, description |-> <<100>>, significance |-> "Medium"],
                   [title |-> <<117>>, description |-> <<101>>, significance |-> "low"] >>,
   explanation |-> <<69>>,
   suggested_questions |-> << <<113, 60>>, <<112>> >>]

Analyses == {None, Some(PlainAnalysis), Some(FullAnalysis)}

\* "r1\nr2\nr3\n"
ShortTable == <<114, 49, 10, 114, 50, 10, 114, 51, 10>>

\* twelve lines "a\n" .. "l\n"
LongTable == 
  <<97, 10, 98, 10, 99, 10, 100, 10, 101, 10, 102, 10, 103, 10, 104, 10, 105, 10, 106, 10, 107, 10, 108, 10>>

Tables == {None, Some(<<>>), Some(ShortTable), Some(LongTable)}

\* the data: up to MaxRows records (their content plays no part in the report)
DataSets == {[i \in 1..n |-> i] : n \in 0..MaxRows}

RowCounts == {0, 1, 2, 10, 11, 12}

ExecutionTimes == {0, 42}

Responses ==
  [text_response : TextResponses, analysis : Analyses, table : Tables, data : DataSets,
   row_count : RowCounts, execution_time_ms : ExecutionTimes, cached : BOOLEAN]

InitRender ==
  /\ response \in Responses
  /\ r_pc = "start"
  /\ formatted = <<>>
  /\ ExtractIdle
  /\ CodecIdle
  /\ SegmentIdle
  /\ EscapeIdle
  /\ ChartIdle
  /\ DispatchIdle
  /\ InteractionIdle

\* one call of format_query_response(&response)
FormatQueryResponse ==
  /\ r_pc = "start"
  /\ formatted' = format_query_response(response)
  /\ r_pc' = "done"
  /\ UNCHANGED <<response, xvars, cvars, svars, evars, gvars, hvars, ivars>>

NextRender == FormatQueryResponse

SpecRender == InitRender /\ [][NextRender]_vars

(***************************************************************************)
(* Properties of the Result Renderer                                       *)
(***************************************************************************)

\* what one char becomes under HTML escaping
EscapedChar(c) ==
  IF c = 38 THEN lit_amp ELSE IF c = 60 THEN lit_lt ELSE IF c = 62 THEN lit_gt ELSE <<c>>

\* the HTML-escaped x, char by char
HtmlEscaped(x) == Flatten([i \in 1..Len(x) |-> EscapedChar(x[i])])

\* C7: with a narrative answer x present the report is exactly the HTML-escaped
\* x: no analysis section, no table section, no "no data" notice, no timing line.
C7_NarrativeOnly ==
  (r_pc = "done" /\ response.text_response.some) =>
    /\ formatted = HtmlEscaped(response.text_response.val)
    /\ ~StrContains(formatted, lit_headline_open)
    /\ ~StrContains(formatted, lit_results_open)
    /\ ~StrContains(formatted, lit_no_data)
    /\ ~StrContains(formatted, lit_timing_open)

\* a narrative answer with characters to escape was rendered for a response
\* that also has an analysis, a table and rows
C7_Witness ==
  /\ r_pc = "done"
  /\ response.text_response = Some(<<97, 60, 98, 38, 99, 62>>)
  /\ response.analysis.some
  /\ response.table.some /\ response.table.val # <<>>
  /\ response.data # <<>>
  /\ formatted = <<97>> \o lit_lt \o <<98>> \o lit_amp \o <<99>> \o lit_gt

\* s ends with suffix
EndsWith(s, suffix) ==
  Len(suffix) <= Len(s) /\ SubSeq(s, Len(s) - Len(suffix) + 1, Len(s)) = suffix

\* the report of a response without a narrative answer has been rendered
Rendered == r_pc = "done" /\ ~response.text_response.some

\* the timing line as the report should end: the time in ms, the cache suffix
\* when the answer came from the cache
ExpectedTiming ==
  lit_timing_open \o Decimal(response.execution_time_ms) \o lit_ms
    \o (IF response.cached THEN lit_cached ELSE <<>>)

\* C12: a result without a narrative answer and without rows gets the "no data"
\* notice, whatever its table, analysis and row_count are; for the all-empty
\* result the report ends with the notice followed by the timing line.
C12_NoDataNotice ==
  (Rendered /\ response.data = <<>>) =>
    /\ StrContains(formatted, lit_no_data)
    /\ (response.table = None /\ response.analysis = None /\ response.row_count = 0)
         => EndsWith(formatted, lit_no_data \o ExpectedTiming)

\* the first ten lines of s joined by newlines (all lines when s has fewer)
FirstTenLines(s) ==
  LET nls == SelectSeq([i \in 1..Len(s) |-> i], LAMBDA i : s[i] = 10)
  IN IF Len(nls) >= 10 THEN SubSeq(s, 1, nls[10] - 1)
     ELSE IF s # <<>> /\ s[Len(s)] = 10 THEN SubSeq(s, 1, Len(s) - 1)
     ELSE s

\* the header of the table section is in the report
TableShown == StrContains(formatted, lit_results_open)

C15_TimingAlways ==
  r_pc = "done" =>
    /\ EndsWith(formatted, ExpectedTiming)
    /\ EndsWith(formatted, lit_cached) <=> response.cached

\* C15 amended: the report of every result without a narrative answer ends with
\* the timing line that carries execution_time_ms, the cache suffix after it
\* exactly when the answer came from the cache.
C15_TimingUnlessNarrative ==
  Rendered =>
    /\ EndsWith(formatted, ExpectedTiming)
    /\ EndsWith(formatted, lit_cached) <=> response.cached

\* a cached answer that took 42 ms was rendered with its analysis and table
C15_Witness ==
  /\ Rendered
  /\ response.cached
  /\ response.execution_time_ms = 42
  /\ response.analysis.some
  /\ response.table = Some(ShortTable)
  /\ EndsWith(formatted, <<52, 50>> \o lit_ms \o lit_cached)

(***************************************************************************)
(* Specification of HTML escaping and of the free-text fields of a report  *)
(***************************************************************************)

\* the longest free text enumerated
MaxText == 3

\* & < > a l t ;
EscapeAlphabet == {38, 60, 62, 97, 108, 116, 59}

\* every text of up to MaxText chars over the alphabet, and texts that already
\* hold entities: "&amp;", "&lt;", "&gt;", "&amp;lt;"
EscapeTexts ==
  UNION {[1..k -> EscapeAlphabet] : k \in 0..MaxText}
    \cup {lit_amp, lit_lt, lit_gt, <<38, 97, 109, 112, 59, 108, 116, 59>>}

\* the free-text fields format_query_response inserts
FreeTextFields == {"headline", "title", "description", "explanation", "suggestion", "narrative"}

\* a response that carries s in the given free-text field ("h", "t", "d", "e",
\* "q" in the other fields of the analysis)
ResponseWith(field, s) ==
  [EmptyResponse EXCEPT
     !.text_response = IF field = "narrative" THEN Some(s) ELSE None,
     !.analysis =
       IF field = "narrative" THEN None
       ELSE Some([headline |-> IF field = "headline" THEN s ELSE <<104>>,
                  insights |-> << [title |-> IF field = "title" THEN s ELSE <<116>>,
                                   description |-> IF field = "description" THEN s ELSE <<100>>,
                                   significance |-> "High"] >>,
                  explanation |-> IF field = "explanation" THEN s ELSE <<101>>,
                  suggested_questions |-> << IF field = "suggestion" THEN s ELSE <<113>> >>])]

InitEscape ==
  /\ e_text \in EscapeTexts
  /\ e_field \in FreeTextFields
  /\ e_pc = "start"
  /\ e_escaped = <<>>
  /\ e_formatted = <<>>
  /\ ExtractIdle
  /\ CodecIdle
  /\ RenderIdle
  /\ SegmentIdle
  /\ ChartIdle
  /\ DispatchIdle
  /\ InteractionIdle

\* one call of escape_html(e_text)
EscapeHtml ==
  /\ e_pc = "start"
  /\ e_escaped' = escape_html(e_text)
  /\ e_pc' = "escaped"
  /\ UNCHANGED <<e_text, e_field, e_formatted, xvars, cvars, rvars, svars, gvars, hvars, ivars>>

\* one call of format_query_response for the response that carries e_text
FormatFreeText ==
  /\ e_pc = "escaped"
  /\ e_formatted' = format_query_response(ResponseWith(e_field, e_text))
  /\ e_pc' = "done"
  /\ UNCHANGED <<e_text, e_field, e_escaped, xvars, cvars, rvars, svars, gvars, hvars, ivars>>

NextEscape == EscapeHtml \/ FormatFreeText

SpecEscape == InitEscape /\ [][NextEscape]_vars

(***************************************************************************)
(* Properties of HTML escaping                                             *)
(***************************************************************************)

\* the entity, if any, that starts at index i of s
EntityAt(s, i) ==
  IF MatchAt(s, lit_amp, i) THEN lit_amp
  ELSE IF MatchAt(s, lit_lt, i) THEN lit_lt
  ELSE IF MatchAt(s, lit_gt, i) THEN lit_gt
  ELSE <<>>

\* index i of s lies inside an entity, after its '&'
InEntityTail(s, i) ==
  \E j \in 1..(i - 1) : s[j] = 38 /\ i < j + Len(EntityAt(s, j))

\* the text an escaped s stands for: every entity read back as its character
Unescape(s) ==
  LET keep == SelectSeq([i \in 1..Len(s) |-> i], LAMBDA i : ~InEntityTail(s, i))
  IN [k \in 1..Len(keep) |->
        LET e == EntityAt(s, keep[k])
        IN IF e = lit_amp THEN 38 ELSE IF e = lit_lt THEN 60 ELSE IF e = lit_gt THEN 62
           ELSE s[keep[k]]]

\* what stands right before / right after the escaped text of a field in the report
FieldOpen(field) ==
  IF field = "headline" THEN lit_headline_open
  ELSE IF field = "title" THEN lit_high \o lit_bold_open
  ELSE IF field = "description" THEN lit_bold_close_nl
  ELSE IF field = "explanation" THEN lit_explanation_header
  ELSE lit_suggestions_hint \o <<49>> \o lit_dot_space

FieldClose(field) ==
  IF field = "headline" THEN lit_headline_close
  ELSE IF field = "title" THEN lit_bold_close_nl
  ELSE IF field = "description" THEN lit_blank_line \o lit_explanation_header
  ELSE IF field = "explanation" THEN lit_blank_line \o lit_suggestions_header
  ELSE lit_newline \o lit_newline

\* C16: escape_html turns & < > into &amp; &lt; &gt; char by char (which is what
\* replacing & first gives) and leaves every other char alone; its output has
\* no raw < or >, every & in it starts one of the three entities, and the input
\* can be read back from it (so distinct inputs give distinct outputs); and the
\* report carries each free-text field in escaped form.
C16_EscapeHtml ==
  /\ e_pc \in {"escaped", "done"} =>
       /\ e_escaped = HtmlEscaped(e_text)
       /\ \A i \in 1..Len(e_escaped) :
            /\ e_escaped[i] \notin {60, 62}
            /\ e_escaped[i] = 38 => EntityAt(e_escaped, i) # <<>>
       /\ Unescape(e_escaped) = e_text
  /\ e_pc = "done" =>
       IF e_field = "narrative"
       THEN e_formatted = HtmlEscaped(e_text)
       ELSE StrContains(e_formatted, FieldOpen(e_field) \o HtmlEscaped(e_text) \o FieldClose(e_field))

\* the text "&lt;", itself the entity of '<', was escaped to "&amp;lt;" and
\* rendered as the headline of an analysis
C16_Witness ==
  /\ e_pc = "done"
  /\ e_text = lit_lt
  /\ e_field = "headline"
  /\ e_escaped = <<38, 97, 109, 112, 59, 108, 116, 59>>
  /\ StrContains(e_formatted, e_escaped)

(***************************************************************************)
(* Specification of the chart path of concurrent interactions              *)
(***************************************************************************)

\* the ChartData values: no or two labels, no or one dataset
Charts == [labels : {0, 2}, datasets : {0, 1}]

InitChart ==
  /\ g_chart \in [Tasks -> Charts]
  /\ g_pc = [p \in Tasks |-> "start"]
  /\ g_file = NoFile
  /\ g_buffer = [p \in Tasks |-> NoBytes]
  /\ g_result = [p \in Tasks |-> "none"]
  /\ g_photo = [p \in Tasks |-> None]
  /\ g_log = [p \in Tasks |-> {}]
  /\ g_report = [p \in Tasks |-> FALSE]
  /\ ExtractIdle
  /\ CodecIdle
  /\ RenderIdle
  /\ SegmentIdle
  /\ EscapeIdle
  /\ DispatchIdle
  /\ InteractionIdle

\* generate_chart_image, lines 55-70: the backend is created and filled, then
\* datasets[0] is indexed (a panic when there is none), then the call returns
\* Ok(empty) when there are no labels; on both exits the backend is dropped
GenerateBegin(p) ==
  /\ g_pc[p] = "start"
  /\ IF IndexPanics(g_chart[p])
     THEN /\ g_file' = Present(Png(p, "blank"), p)
          /\ g_result' = [g_result EXCEPT ![p] = "panic"]
          /\ g_pc' = [g_pc EXCEPT ![p] = "aborted"]
     ELSE IF NoLabels(g_chart[p])
     THEN /\ g_file' = Present(Png(p, "blank"), p)
          /\ g_result' = [g_result EXCEPT ![p] = "ok"]
          /\ g_pc' = [g_pc EXCEPT ![p] = "returned"]
     ELSE /\ g_pc' = [g_pc EXCEPT ![p] = "draw"]
          /\ UNCHANGED <<g_file, g_result>>
  /\ UNCHANGED <<g_chart, g_buffer, g_photo, g_log, g_report>>
  /\ UNCHANGED <<xvars, cvars, rvars, svars, evars, hvars, ivars>>

\* lines 73-162: the chart is built and drawn; any step may fail (`?`), which
\* returns Err; at the end of the block, or on the failure, the backend is
\* dropped and presents what was drawn
GenerateDraw(p) ==
  /\ g_pc[p] = "draw"
  /\ \E drawn \in BOOLEAN :
       /\ g_file' = Present(Png(p, IF drawn THEN "chart" ELSE "partial"), p)
       /\ IF drawn
          THEN /\ g_pc' = [g_pc EXCEPT ![p] = "read"]
               /\ UNCHANGED g_result
          ELSE /\ g_pc' = [g_pc EXCEPT ![p] = "returned"]
               /\ g_result' = [g_result EXCEPT ![p] = "err"]
  /\ UNCHANGED <<g_chart, g_buffer, g_photo, g_log, g_report>>
  /\ UNCHANGED <<xvars, cvars, rvars, svars, evars, hvars, ivars>>

\* line 165: let buffer = std::fs::read(&temp_path)?; the file is missing only
\* when another task has removed it meanwhile
GenerateRead(p) ==
  /\ g_pc[p] = "read"
  /\ IF g_file.exists
     THEN /\ g_buffer' = [g_buffer EXCEPT ![p] = g_file.bytes]
          /\ g_pc' = [g_pc EXCEPT ![p] = "remove"]
          /\ UNCHANGED <<g_result, g_log>>
     ELSE /\ g_result' = [g_result EXCEPT ![p] = "err"]
          /\ g_pc' = [g_pc EXCEPT ![p] = "returned"]
          /\ g_log' = [g_log EXCEPT ![p] = @ \cup {"file lost"}]
          /\ UNCHANGED g_buffer
  /\ UNCHANGED <<g_chart, g_file, g_photo, g_report>>
  /\ UNCHANGED <<xvars, cvars, rvars, svars, evars, hvars, ivars>>

\* lines 167-169: let _ = std::fs::remove_file(&temp_path); Ok(buffer)
GenerateRemove(p) ==
  /\ g_pc[p] = "remove"
  /\ g_file' = NoFile
  /\ g_result' = [g_result EXCEPT ![p] = "ok"]
  /\ g_pc' = [g_pc EXCEPT ![p] = "returned"]
  /\ UNCHANGED <<g_chart, g_buffer, g_photo, g_log, g_report>>
  /\ UNCHANGED <<xvars, cvars, rvars, svars, evars, hvars, ivars>>

\* the caller's Err(e) arm: error!("Failed to generate chart image: {}", e)
LogChartError(p) ==
  /\ g_pc[p] = "returned"
  /\ g_result[p] = "err"
  /\ g_log' = [g_log EXCEPT ![p] = @ \cup {"generate"}]
  /\ g_pc' = [g_pc EXCEPT ![p] = "report"]
  /\ UNCHANGED <<g_chart, g_file, g_buffer, g_result, g_photo, g_report>>
  /\ UNCHANGED <<xvars, cvars, rvars, svars, evars, hvars, ivars>>

\* the caller's Ok(image_bytes) arm: if let Ok(_) = std::fs::write(&temp_path,
\* &image_bytes), to the same path; a failed write skips the photo silently
WriteChartFile(p) ==
  /\ g_pc[p] = "returned"
  /\ g_result[p] = "ok"
  /\ \E written \in BOOLEAN :
       IF written
       THEN /\ g_file' = WrittenFile(g_buffer[p], p, "handler")
            /\ g_pc' = [g_pc EXCEPT ![p] = "send"]
       ELSE /\ g_pc' = [g_pc EXCEPT ![p] = "report"]
            /\ UNCHANGED g_file
  /\ UNCHANGED <<g_chart, g_buffer, g_result, g_photo, g_log, g_report>>
  /\ UNCHANGED <<xvars, cvars, rvars, svars, evars, hvars, ivars>>

\* bot.send_photo(chat, InputFile::file(&temp_path)).await: the file is read
\* when the request is sent; a missing file, an empty photo or a failed request
\* is an Err, which is logged
SendPhoto(p) ==
  /\ g_pc[p] = "send"
  /\ \E delivered \in BOOLEAN :
       IF ~g_file.exists
       THEN /\ g_log' = [g_log EXCEPT ![p] = @ \cup {"send", "file lost"}]
            /\ UNCHANGED g_photo
       ELSE IF delivered /\ g_file.bytes # NoBytes
       THEN /\ g_photo' = [g_photo EXCEPT ![p] = Some(g_file.bytes)]
            /\ UNCHANGED g_log
       ELSE /\ g_log' = [g_log EXCEPT ![p] = @ \cup {"send"}]
            /\ UNCHANGED g_photo
  /\ g_pc' = [g_pc EXCEPT ![p] = "cleanup"]
  /\ UNCHANGED <<g_chart, g_file, g_buffer, g_result, g_report>>
  /\ UNCHANGED <<xvars, cvars, rvars, svars, evars, hvars, ivars>>

\* let _ = std::fs::remove_file(&temp_path) after the photo
RemoveChartFile(p) ==
  /\ g_pc[p] = "cleanup"
  /\ g_file' = NoFile
  /\ g_pc' = [g_pc EXCEPT ![p] = "report"]
  /\ UNCHANGED <<g_chart, g_buffer, g_result, g_photo, g_log, g_report>>
  /\ UNCHANGED <<xvars, cvars, rvars, svars, evars, hvars, ivars>>

\* the textual report is formatted and sent
SendTextReport(p) ==
  /\ g_pc[p] = "report"
  /\ g_report' = [g_report EXCEPT ![p] = TRUE]
  /\ g_pc' = [g_pc EXCEPT ![p] = "done"]
  /\ UNCHANGED <<g_chart, g_file, g_buffer, g_result, g_photo, g_log>>
  /\ UNCHANGED <<xvars, cvars, rvars, svars, evars, hvars, ivars>>

NextChart ==
  \E p \in Tasks :
    \/ GenerateBegin(p)
    \/ GenerateDraw(p)
    \/ GenerateRead(p)
    \/ GenerateRemove(p)
    \/ LogChartError(p)
    \/ WriteChartFile(p)
    \/ SendPhoto(p)
    \/ RemoveChartFile(p)
    \/ SendTextReport(p)

SpecChart == InitChart /\ [][NextChart]_vars

(***************************************************************************)
(* Properties of the chart path                                            *)
(***************************************************************************)

\* the call of generate_chart_image made by task p is over
CallOver(p) == g_result[p] # "none"

\* C11: for a chart description without labels, whatever its datasets (none
\* included), generate_chart_image returns Ok with an empty result: no error, no
\* panic.
C11_EmptyLabelsEmptyResult ==
  \A p \in Tasks :
    (NoLabels(g_chart[p]) /\ g_pc[p] # "start") =>
      (g_result[p] = "ok" /\ g_buffer[p] = NoBytes)

\* C17: when a call of generate_chart_image has returned, with Ok or with Err,
\* the file the call wrote is no longer on disk.
C17_TransientFileReleased ==
  \A p \in Tasks :
    g_pc[p] = "returned" =>
      ~(g_file.exists /\ g_file.by = p /\ g_file.stage = "generate")

\* C19: a failure of the chart generation or of the photo is only logged: the
\* handler is not aborted, and once it is done the textual report has been sent.
C19_ChartFailureOnlyLogged ==
  \A p \in Tasks :
    (g_result[p] \in {"err", "panic"} \/ g_log[p] # {}) =>
      /\ g_pc[p] # "aborted"
      /\ g_pc[p] = "done" => g_report[p]

\* every task carries a chart with labels and a dataset
AllCarryCharts == \A q \in Tasks : ~IndexPanics(g_chart[q]) /\ ~NoLabels(g_chart[q])

\* C20: when every interaction carries a chart, then under every interleaving of
\* the tasks the bytes a task gets from generate_chart_image and the photo it
\* sends are drawn from its own chart description, and no task finds the file
\* it wrote gone.
C20_TasksIndependent ==
  AllCarryCharts =>
    \A p \in Tasks :
      /\ (CallOver(p) /\ g_buffer[p] # NoBytes) => g_buffer[p][1].task = p
      /\ g_photo[p].some => g_photo[p].val[1].task = p
      /\ "file lost" \notin g_log[p]

\* C26: a task whose generate_chart_image returned the empty result for a chart
\* without labels never attempts to send a photo and sends none.
C26_NoPhotoForEmptyImage ==
  \A p \in Tasks :
    (NoLabels(g_chart[p]) /\ g_result[p] = "ok" /\ g_buffer[p] = NoBytes) =>
      /\ g_pc[p] \notin {"send", "cleanup"}
      /\ ~g_photo[p].some
      /\ "send" \notin g_log[p]

(***************************************************************************)
(* Specification of one interaction: the calls made and the replies sent   *)
(***************************************************************************)

\* the messages a failed backend call may carry (anyhow's to_string()): three
\* with a keyword, a transport failure without one, and one whose keywords are
\* in the wrong case
ErrorMessages ==
  {<<66, 97, 99, 107, 101, 110, 100, 32, 101, 114, 114, 111, 114, 32, 40, 53, 48, 48, 41,
     58, 32, 115, 121, 110, 116, 97, 120, 32, 101, 114, 114, 111, 114, 32, 97, 116, 32,
     49>>,
   <<66, 97, 99, 107, 101, 110, 100, 32, 101, 114, 114, 111, 114, 32, 40, 52, 48, 48, 41,
      58, 32, 98, 97, 100, 32, 83, 81, 76>>,
   <<66, 97, 99, 107, 101, 110, 100, 32, 101, 114, 114, 111, 114, 32, 40, 53, 48, 48, 41,
      58, 32, 100, 97, 116, 97, 98, 97, 115, 101, 32, 105, 115, 32, 100, 111, 119, 110>>,
   <<70, 97, 105, 108, 101, 100, 32, 116, 111, 32, 115, 101, 110, 100, 32, 114, 101, 113,
      117, 101, 115, 116, 32, 116, 111, 32, 98, 97, 99, 107, 101, 110, 100>>,
   <<66, 97, 99, 107, 101, 110, 100, 32, 101, 114, 114, 111, 114, 32, 40, 53, 48, 48, 41,
      58, 32, 115, 113, 108, 32, 68, 97, 116, 97, 98, 97, 115, 101, 32, 83, 121, 110, 116,
      97, 120, 32, 69, 114, 114, 111, 114>>}

\* the callback data received: "query:x", "query:sql: x", "query:", "q:abc",
\* "q:", "zz", ""
CallbackTokens ==
  {<<113, 117, 101, 114, 121, 58, 120>>,
   <<113, 117, 101, 114, 121, 58, 115, 113, 108, 58, 32, 120>>,
   <<113, 117, 101, 114, 121, 58>>,
   <<113, 58, 97, 98, 99>>,
   <<113, 58>>,
   <<122, 122>>,
   <<>>}

InitDispatch ==
  /\ h_kind \in {"message", "menu", "callback"}
  /\ h_data \in (IF h_kind = "callback" THEN CallbackTokens ELSE {<<>>})
  /\ h_pc = "start"
  /\ h_error = None
  /\ h_calls = <<>>
  /\ h_replies = <<>>
  /\ h_result = "none"
  /\ ExtractIdle
  /\ CodecIdle
  /\ RenderIdle
  /\ SegmentIdle
  /\ EscapeIdle
  /\ ChartIdle
  /\ InteractionIdle

\* handle_callback: bot.answer_callback_query(q.id).await?
AnswerCallback ==
  /\ h_pc = "start"
  /\ h_kind = "callback"
  /\ \E ok \in BOOLEAN :
       IF ok THEN h_pc' = "notice" /\ UNCHANGED h_result
       ELSE h_pc' = "done" /\ h_result' = "err: ack"
  /\ UNCHANGED <<h_kind, h_data, h_error, h_calls, h_replies>>
  /\ UNCHANGED <<xvars, cvars, rvars, svars, evars, gvars, ivars>>

\* the "processing" notice: bot.send_message(..).await?
SendNotice ==
  /\ \/ h_pc = "start" /\ h_kind # "callback"
     \/ h_pc = "notice"
  /\ \E ok \in BOOLEAN :
       IF ok
       THEN /\ h_replies' = Append(h_replies, "processing")
            /\ h_pc' = IF h_kind = "callback" THEN "decode" ELSE "query"
            /\ UNCHANGED h_result
       ELSE /\ h_pc' = "done"
            /\ h_result' = "err: notice"
            /\ UNCHANGED h_replies
  /\ UNCHANGED <<h_kind, h_data, h_error, h_calls>>
  /\ UNCHANGED <<xvars, cvars, rvars, svars, evars, gvars, ivars>>

\* handle_callback, lines 129-149: the question is taken from the data; the
\* handler returns Ok(()) for the "q:" family, for unknown data and for an
\* empty question
DecodeCallback ==
  /\ h_pc = "decode"
  /\ LET d == QuestionOfData(h_data)
     IN IF d.kind = "question" /\ d.question # <<>>
        THEN h_pc' = "query" /\ UNCHANGED h_result
        ELSE h_pc' = "done" /\ h_result' = "ok"
  /\ UNCHANGED <<h_kind, h_data, h_error, h_calls, h_replies>>
  /\ UNCHANGED <<xvars, cvars, rvars, svars, evars, gvars, ivars>>

\* api_client.query(query_request).await: Ok(response) or Err(e)
QueryBackend ==
  /\ h_pc = "query"
  /\ h_calls' = Append(h_calls, [call |-> "query"])
  /\ \E outcome \in {None} \cup {Some(e) : e \in ErrorMessages} :
       /\ h_error' = outcome
       /\ h_pc' = IF outcome.some THEN "failed" ELSE "respond"
  /\ UNCHANGED <<h_kind, h_data, h_replies, h_result>>
  /\ UNCHANGED <<xvars, cvars, rvars, svars, evars, gvars, ivars>>

\* the Ok arm: the result is sent to the chat
SendResult ==
  /\ h_pc = "respond"
  /\ h_replies' = Append(h_replies, "result")
  /\ \E ok \in BOOLEAN : h_result' = IF ok THEN "ok" ELSE "err: reply"
  /\ h_pc' = "done"
  /\ UNCHANGED <<h_kind, h_data, h_error, h_calls>>
  /\ UNCHANGED <<xvars, cvars, rvars, svars, evars, gvars, ivars>>

\* the Err arm without a fallback: the retry suggestion (handle_message) or the
\* failure text (menu button, callback) is sent
SendFailure ==
  /\ h_pc = "failed"
  /\ ErrorArm(h_kind, h_error.val) # "fallback"
  /\ h_replies' = Append(h_replies, ErrorArm(h_kind, h_error.val))
  /\ \E ok \in BOOLEAN : h_result' = IF ok THEN "ok" ELSE "err: reply"
  /\ h_pc' = "done"
  /\ UNCHANGED <<h_kind, h_data, h_error, h_calls>>
  /\ UNCHANGED <<xvars, cvars, rvars, svars, evars, gvars, ivars>>

\* handle_message, lines 245-271: api_client.chat(..).await, then its message
\* or, when it failed too, the fixed apology is sent
ChatFallback ==
  /\ h_pc = "failed"
  /\ ErrorArm(h_kind, h_error.val) = "fallback"
  /\ \E chat_ok \in BOOLEAN :
       /\ h_calls' = Append(h_calls, [call |-> IF chat_ok THEN "chat ok" ELSE "chat err"])
       /\ h_replies' = Append(h_replies, IF chat_ok THEN "chat message" ELSE "apology")
  /\ \E ok \in BOOLEAN : h_result' = IF ok THEN "ok" ELSE "err: reply"
  /\ h_pc' = "done"
  /\ UNCHANGED <<h_kind, h_data, h_error>>
  /\ UNCHANGED <<xvars, cvars, rvars, svars, evars, gvars, ivars>>

NextDispatch ==
  \/ AnswerCallback
  \/ SendNotice
  \/ DecodeCallback
  \/ QueryBackend
  \/ SendResult
  \/ SendFailure
  \/ ChatFallback

SpecDispatch == InitDispatch /\ [][NextDispatch]_vars

(***************************************************************************)
(* Properties of the interaction handlers                                  *)
(***************************************************************************)

\* the chat calls made so far
ChatCalls == SelectSeq(h_calls, LAMBDA c : c.call \in {"chat ok", "chat err"})

\* the last message sent to the chat, "" when none was sent
LastReply == IF h_replies = <<>> THEN "" ELSE h_replies[Len(h_replies)]

\* C13: for callback data of the "q:" family the handler makes no backend call
\* and sends nothing but the processing notice: no result, no failure text; it
\* never returns an error for the data (an Err can only come from the
\* acknowledgement or the notice, sent before the data is looked at), and once
\* the data is looked at it returns Ok.
C13_HashTokenUnresolvable ==
  (h_kind = "callback" /\ StartsWith(h_data, hash_prefix)) =>
    /\ h_calls = <<>>
    /\ \A i \in 1..Len(h_replies) : h_replies[i] = "processing"
    /\ h_result \in {"none", "ok", "err: ack", "err: notice"}
    /\ (h_pc = "done" /\ h_replies # <<>>) => h_result = "ok"

\* the callback data "q:abc" went through the handler
C13_Witness ==
  /\ h_kind = "callback"
  /\ h_data = <<113, 58, 97, 98, 99>>
  /\ h_pc = "done"
  /\ h_replies = <<"processing">>
  /\ h_result = "ok"

\* C18: when the backend query of an interaction has failed, then, once the
\* handler is done: for a failure message with "syntax error", "SQL" or
\* "database" exactly one chat call was made, and its message (if it succeeded)
\* or the fixed apology (if it failed) is the reply; for any other failure no
\* chat call was made and the reply is the generic retry suggestion.
C18_FallbackOnSqlFailure ==
  (h_pc = "done" /\ h_error.some) =>
    IF \/ StrContains(h_error.val, kw_syntax_error)
       \/ StrContains(h_error.val, kw_sql)
       \/ StrContains(h_error.val, kw_database)
    THEN /\ Len(ChatCalls) = 1
         /\ LastReply = IF ChatCalls[1].call = "chat ok" THEN "chat message" ELSE "apology"
    ELSE /\ ChatCalls = <<>>
         /\ LastReply = "retry"

\* C28: callback data that is exactly "query:" (an empty question fragment)
\* causes no backend call.
C28_EmptyFragmentNoQuery ==
  (h_kind = "callback" /\ h_data = prefix) => h_calls = <<>>

(***************************************************************************)
(* Specification of one interaction end to end                             *)
(***************************************************************************)

\* the most suggested questions an analysis carries
MaxSuggestions == 7

\* the suggested questions "a", "b", ...
Suggestions(n) == [k \in 1..n |-> <<96 + k>>]

\* the reports format_query_response may return, as runs: one line of 47 bytes;
\* three lines of 2000 bytes (6002 bytes); one line of 4100 bytes
ReportShapes ==
  { <<Body(1, 47)>>,
    <<Body(1, 2000), NL, Body(2, 2000), NL, Body(3, 2000)>>,
    <<Body(1, 4100)>> }

\* the text_response values: absent, one short line, two lines of 2500 bytes
NarrativeShapes == {None, Some(<<Body(1, 10)>>), Some(<<Body(1, 2500), NL, Body(2, 2500)>>)}

\* the responses of the backend: data is empty, holds objects (a CSV comes out
\* of format_as_csv) or holds scalars (format_as_csv returns ""); chart_data is
\* absent, has no dataset, has no label, or is drawable
InteractionResponses ==
  [text_response : NarrativeShapes,
   data : {"empty", "objects", "scalars"},
   row_count : {0, 3},
   chart : {"none", "nodatasets", "nolabels", "valid"},
   suggestions : {Suggestions(0), Suggestions(2), Suggestions(MaxSuggestions)},
   report : ReportShapes]

\* what the backend may answer: a response, or a failure with or without a
\* keyword in its message
BackendAnswers ==
  {[ok |-> TRUE, response |-> r, error |-> <<>>] : r \in InteractionResponses}
    \cup {[ok |-> FALSE, response |-> <<>>, error |-> e] :
            e \in {<<66, 97, 99, 107, 101, 110, 100, 32, 101, 114, 114, 111, 114, 32, 40, 52, 48, 48, 41, 58, 32, 98, 97, 100, 32, 83, 81, 76>>,
                   <<70, 97, 105, 108, 101, 100, 32, 116, 111, 32, 115, 101, 110, 100, 32,
                      114, 101, 113, 117, 101, 115, 116, 32, 116, 111, 32, 98, 97, 99,
                      107, 101, 110, 100>>}}

\* typed texts: "sql: x", "x график"
TypedTexts ==
  {<<115, 113, 108, 58, 32, 120>>,
   <<120, 32, 1075, 1088, 1072, 1092, 1080, 1082>>}

\* the query of a menu button: "x таблица"
MenuQueries == {<<120, 32, 1090, 1072, 1073, 1083, 1080, 1094, 1072>>}

\* callback data: "query:x", "query:sql: x", "q:abc", "zz"
InteractionTokens ==
  {<<113, 117, 101, 114, 121, 58, 120>>,
   <<113, 117, 101, 114, 121, 58, 115, 113, 108, 58, 32, 120>>,
   <<113, 58, 97, 98, 99>>, <<122, 122>>}

InitInteraction ==
  /\ i_path \in {"message", "menu", "callback"}
  /\ i_input \in (IF i_path = "message" THEN TypedTexts
                  ELSE IF i_path = "menu" THEN MenuQueries ELSE InteractionTokens)
  /\ i_pc = "start"
  /\ i_request = None
  /\ i_backend = NoAnswer
  /\ i_outbox = <<>>
  /\ i_csv = "none"
  /\ i_csv_file = FALSE
  /\ i_chart = "none"
  /\ i_returned = "none"
  /\ ExtractIdle
  /\ CodecIdle
  /\ RenderIdle
  /\ SegmentIdle
  /\ EscapeIdle
  /\ ChartIdle
  /\ DispatchIdle

\* the "processing" notice is sent (after the acknowledgement, for a callback)
SendProcessing ==
  /\ i_pc = "start"
  /\ i_outbox' = Append(i_outbox, Event("notice", <<>>, <<>>, TRUE))
  /\ i_pc' = IF i_path = "callback" THEN "decode" ELSE "query"
  /\ UNCHANGED <<i_path, i_input, i_request, i_backend, i_csv, i_csv_file, i_chart, i_returned>>
  /\ UNCHANGED <<xvars, cvars, rvars, svars, evars, gvars, hvars>>

\* handle_callback, bot.rs:129-149: data that yields no question ends the
\* handler with Ok(())
DecodeToken ==
  /\ i_pc = "decode"
  /\ LET d == QuestionOfData(i_input)
     IN IF d.kind = "question" /\ d.question # <<>>
        THEN i_pc' = "query" /\ UNCHANGED i_returned
        ELSE i_pc' = "done" /\ i_returned' = "ok"
  /\ UNCHANGED <<i_path, i_input, i_request, i_backend, i_outbox, i_csv, i_csv_file, i_chart>>
  /\ UNCHANGED <<xvars, cvars, rvars, svars, evars, gvars, hvars>>

\* the request is built and api_client.query is awaited; both arms of the match
\* start by deleting the "processing" notice
QueryAndDelete ==
  /\ i_pc = "query"
  /\ i_request' = Some(IF i_path = "message" THEN RequestOfMessage(Trim(i_input))
                       ELSE IF i_path = "menu" THEN RequestOfMenu(i_input)
                       ELSE RequestOfCallback(QuestionOfData(i_input).question))
  /\ \E answer \in BackendAnswers :
       /\ i_backend' = answer
       /\ i_pc' = IF ~answer.ok THEN "failed"
                  ELSE IF i_path = "callback" THEN "csv" ELSE "narrative"
  /\ i_outbox' = Append(i_outbox, Event("delete", <<>>, <<>>, TRUE))
  /\ UNCHANGED <<i_path, i_input, i_csv, i_csv_file, i_chart, i_returned>>
  /\ UNCHANGED <<xvars, cvars, rvars, svars, evars, gvars, hvars>>

\* handle_message 113-118, process_query_response 293-298: a text_response is
\* sent as it is and the handler returns
ReplyNarrative ==
  /\ i_pc = "narrative"
  /\ IF i_backend.response.text_response.some
     THEN /\ i_outbox' = Append(i_outbox,
                                Event("text", i_backend.response.text_response.val, <<>>, TRUE))
          /\ i_returned' = "ok"
          /\ i_pc' = "done"
     ELSE /\ i_pc' = "csv"
          /\ UNCHANGED <<i_outbox, i_returned>>
  /\ UNCHANGED <<i_path, i_input, i_request, i_backend, i_csv, i_csv_file, i_chart>>
  /\ UNCHANGED <<xvars, cvars, rvars, svars, evars, gvars, hvars>>

\* the CSV step: format_as_csv, fs::write, send_document, remove_file; in
\* handle_message a failed write or send returns the error at once (`?`)
SendCsv ==
  /\ i_pc = "csv"
  /\ IF i_backend.response.data # "objects"
     THEN /\ i_pc' = "chart"
          /\ UNCHANGED <<i_outbox, i_csv, i_csv_file, i_chart, i_returned>>
     ELSE \E written \in BOOLEAN, delivered \in BOOLEAN :
            IF ~written
            THEN /\ i_csv' = "write failed"
                 /\ i_pc' = IF CsvIsStrict(i_path) THEN "done" ELSE "chart"
                 /\ i_returned' = IF CsvIsStrict(i_path) THEN "err" ELSE i_returned
                 /\ UNCHANGED <<i_outbox, i_csv_file>>
            ELSE /\ i_outbox' = Append(i_outbox, Event("document", <<>>, <<>>, delivered))
                 /\ i_csv' = IF delivered THEN "sent" ELSE "send failed"
                 /\ IF ~delivered /\ CsvIsStrict(i_path)
                    THEN i_csv_file' = TRUE /\ i_pc' = "done" /\ i_returned' = "err"
                    ELSE i_csv_file' = FALSE /\ i_pc' = "chart" /\ UNCHANGED i_returned
  /\ UNCHANGED <<i_path, i_input, i_request, i_backend, i_chart>>
  /\ UNCHANGED <<xvars, cvars, rvars, svars, evars, gvars, hvars>>

\* the chart step: generate_chart_image, then for Ok(image_bytes) fs::write and
\* send_photo (whose failure is logged), for Err a log entry; a chart without
\* datasets makes generate_chart_image panic
SendChart ==
  /\ i_pc = "chart"
  /\ LET chart == i_backend.response.chart
     IN IF chart = "none"
        THEN i_pc' = "text" /\ UNCHANGED <<i_outbox, i_chart, i_returned>>
        ELSE IF chart = "nodatasets"
        THEN /\ i_pc' = "done"
             /\ i_returned' = "panic"
             /\ i_chart' = "panicked"
             /\ UNCHANGED i_outbox
        ELSE \E generated \in BOOLEAN, written \in BOOLEAN, delivered \in BOOLEAN :
               /\ i_pc' = "text"
               /\ UNCHANGED i_returned
               /\ IF chart = "nolabels"
                  THEN /\ i_outbox' = IF written
                                      THEN Append(i_outbox, Event("photo", NoBytes, <<>>, FALSE))
                                      ELSE i_outbox
                       /\ i_chart' = IF written THEN "send failed" ELSE "failed"
                  ELSE /\ i_outbox' = IF generated /\ written
                                      THEN Append(i_outbox,
                                                  Event("photo", Png(1, "chart"), <<>>, delivered))
                                      ELSE i_outbox
                       /\ i_chart' = IF ~(generated /\ written) THEN "failed"
                                     ELSE IF delivered THEN "sent" ELSE "send failed"
  /\ UNCHANGED <<i_path, i_input, i_request, i_backend, i_csv, i_csv_file>>
  /\ UNCHANGED <<xvars, cvars, rvars, svars, evars, gvars, hvars>>

\* the textual reply: handle_callback sends a text_response here, as it is;
\* otherwise the report goes out with the keyboard on its last message
SendText ==
  /\ i_pc = "text"
  /\ LET resp == i_backend.response
     IN i_outbox' =
          IF i_path = "callback" /\ resp.text_response.some
          THEN Append(i_outbox, Event("text", resp.text_response.val, <<>>, TRUE))
          ELSE i_outbox \o TextMessages(i_path, resp.report, KeyboardFor(i_path, resp))
  /\ i_returned' = "ok"
  /\ i_pc' = "done"
  /\ UNCHANGED <<i_path, i_input, i_request, i_backend, i_csv, i_csv_file, i_chart>>
  /\ UNCHANGED <<xvars, cvars, rvars, svars, evars, gvars, hvars>>

\* the Err arm: the chat fallback with its message or the apology, the retry
\* suggestion, or the failure text
ReplyFailure ==
  /\ i_pc = "failed"
  /\ LET arm == ErrorArm(i_path, i_backend.error)
     IN IF arm = "fallback"
        THEN \E chat_ok \in BOOLEAN :
               i_outbox' = Append(i_outbox,
                                  Event(IF chat_ok THEN "chat message" ELSE "apology",
                                        <<>>, <<>>, TRUE))
        ELSE i_outbox' = Append(i_outbox, Event(arm, <<>>, <<>>, TRUE))
  /\ i_returned' = "ok"
  /\ i_pc' = "done"
  /\ UNCHANGED <<i_path, i_input, i_request, i_backend, i_csv, i_csv_file, i_chart>>
  /\ UNCHANGED <<xvars, cvars, rvars, svars, evars, gvars, hvars>>

NextInteraction ==
  \/ SendProcessing
  \/ DecodeToken
  \/ QueryAndDelete
  \/ ReplyNarrative
  \/ SendCsv
  \/ SendChart
  \/ SendText
  \/ ReplyFailure

SpecInteraction == InitInteraction /\ [][NextInteraction]_vars

(***************************************************************************)
(* Specification of the Message Segmenter                                  *)
(***************************************************************************)

\* the most lines of a report built from LineLens
MaxLines == 4

\* the byte lengths the lines of a report are drawn from; 0 is an empty line,
\* 47 the shortest timing line
LineLens == {0, 47, 1999, 2000, 3952, 4001}

\* the report whose lines have the byte lengths lens
ReportOf(lens) ==
  JoinWith([i \in 1..Len(lens) |-> IF lens[i] = 0 THEN <<>> ELSE <<Body(i, lens[i])>>],
           <<NL>>)

\* format_query_response starts a long report with a header line and ends it
\* with the timing line: the first and the last line are not empty
BuiltLens ==
  {lens \in UNION {[1..n -> LineLens] : n \in 1..MaxLines} :
     lens[1] # 0 /\ lens[Len(lens)] # 0}

\* two reports of 9000 bytes with no line over 3000 bytes: three lines of text,
\* and text with a run of 1000 empty lines in the middle
ScenarioLens ==
  { <<3000, 2998, 3000>>,
    <<3000, 999>> \o [i \in 1..1000 |-> 0] \o <<3000, 998>> }

Reports == {ReportOf(lens) : lens \in BuiltLens \cup ScenarioLens}

InitSegment ==
  /\ report \in Reports
  /\ s_pc = "start"
  /\ lines = <<>>
  /\ current = <<>>
  /\ chunks = <<>>
  /\ sent = <<>>
  /\ ExtractIdle
  /\ CodecIdle
  /\ RenderIdle
  /\ EscapeIdle
  /\ ChartIdle
  /\ DispatchIdle
  /\ InteractionIdle

\* if formatted.len() > 4096 { split } else { send the report as one message }
SendReport ==
  /\ s_pc = "start"
  /\ IF RunsLen(report) > hard_limit
     THEN /\ lines' = Lines(report, NL)
          /\ s_pc' = "split"
          /\ UNCHANGED sent
     ELSE /\ sent' = <<report>>
          /\ s_pc' = "done"
          /\ UNCHANGED lines
  /\ UNCHANGED <<report, current, chunks, xvars, cvars, rvars, evars, gvars, hvars, ivars>>

\* one iteration of "for line in formatted.lines()"
SplitLine ==
  /\ s_pc = "split"
  /\ lines # <<>>
  /\ LET st == PushLine([current |-> current, chunks |-> chunks], Head(lines))
     IN /\ current' = st.current
        /\ chunks' = st.chunks
  /\ lines' = Tail(lines)
  /\ UNCHANGED <<report, s_pc, sent, xvars, cvars, rvars, evars, gvars, hvars, ivars>>

\* after the loop: the last chunk is flushed and the chunks are sent in order
SendChunks ==
  /\ s_pc = "split"
  /\ lines = <<>>
  /\ chunks' = FlushLast([current |-> current, chunks |-> chunks])
  /\ sent' = ChunkMessages(chunks', report)
  /\ s_pc' = "done"
  /\ UNCHANGED <<report, lines, current, xvars, cvars, rvars, evars, gvars, hvars, ivars>>

NextSegment ==
  \/ SendReport
  \/ SplitLine
  \/ SendChunks

SpecSegment == InitSegment /\ [][NextSegment]_vars

(***************************************************************************)
(* Properties of the Message Segmenter                                     *)
(***************************************************************************)

SplitDone == s_pc = "done" /\ RunsLen(report) > hard_limit

\* the chunk is one line body longer than the soft limit
IsSingleLongLine(chunk) == Len(chunk) = 1 /\ chunk[1] # NL /\ chunk[1].len > soft_limit

\* C8: every chunk of a report longer than the hard limit is at most 4000
\* bytes long, unless it consists of one single line longer than 4000 bytes.
C8_ChunksWithinSoftLimit ==
  SplitDone =>
    \A i \in 1..Len(chunks) :
      RunsLen(chunks[i]) <= 4000 \/ IsSingleLongLine(chunks[i])

\* a split produced a chunk of exactly 4000 bytes made of several lines, and a
\* chunk that is one single line of more than 4000 bytes
C8_Witness ==
  /\ SplitDone
  /\ \E i \in 1..Len(chunks) : RunsLen(chunks[i]) = 4000 /\ Len(chunks[i]) > 1
  /\ \E i \in 1..Len(chunks) : IsSingleLongLine(chunks[i])

\* every piece of s between newlines, a trailing empty piece included
AllLines(s) ==
  LET nls == SelectSeq([i \in 1..Len(s) |-> i], LAMBDA i : s[i] = NL)
      From(k) == IF k = 1 THEN 1 ELSE nls[k - 1] + 1
      To(k) == IF k = Len(nls) + 1 THEN Len(s) ELSE nls[k] - 1
  IN [k \in 1..(Len(nls) + 1) |-> SubSeq(s, From(k), To(k))]

\* the lines of all chunks, in chunk order
ChunkLines == Flatten([i \in 1..Len(chunks) |-> AllLines(chunks[i])])

\* C9: the lines of the chunks, taken in chunk order, are exactly the lines of
\* the report, empty lines included: none dropped, duplicated, reordered or split.
C9_LinesPreserved ==
  SplitDone => ChunkLines = AllLines(report)

\* C10: a report of 9000 bytes with no line over 3000 bytes is split into at
\* least 3 chunks of at most 4000 bytes each.
C10_NineThousandBytes ==
  (/\ s_pc = "done"
   /\ RunsLen(report) = 9000
   /\ \A k \in 1..Len(report) : report[k].len <= 3000) =>
    /\ Len(chunks) >= 3
    /\ \A i \in 1..Len(chunks) : RunsLen(chunks[i]) <= 4000

(***************************************************************************)
(* Properties of one interaction                                           *)
(***************************************************************************)

\* the positions of the outbox that hold an event of the kind
PositionsOf(kind) == {i \in 1..Len(i_outbox) : i_outbox[i].kind = kind}

\* the text messages of the outbox, in the order sent
TextEvents == SelectSeq(i_outbox, LAMBDA e : e.kind = "text")

\* the backend answered with a result
Answered == i_backend.ok

\* the result carries a narrative answer
HasNarrative == Answered /\ i_backend.response.text_response.some

\* the text of the reply to the result: the narrative answer or the report
ReplyText ==
  IF HasNarrative THEN i_backend.response.text_response.val ELSE i_backend.response.report

\* no line of the text is longer than the soft limit
NoLongLine(runs) == \A i \in 1..Len(runs) : runs[i] = NL \/ runs[i].len <= soft_limit

\* the line numbers of the text, in order
LineIds(runs) == [i \in 1..Len(SelectSeq(runs, LAMBDA r : r # NL)) |->
                    SelectSeq(runs, LAMBDA r : r # NL)[i].id]

\* the questions the buttons of a reply come from
SuggestedQuestions ==
  IF i_backend.response.suggestions # <<>> THEN i_backend.response.suggestions
  ELSE default_suggestions

\* C21: for a suggestion action, the backend request issued is the one
\* a typed message with the decoded question issues (the request half of the
\* claimed equivalence of handle_callback and handle_message)
C21_CallbackAsTyped ==
  (i_path = "callback" /\ i_request.some) =>
    i_request.val = RequestOfMessage(QuestionOfData(i_input).question)

\* C22: at most 6 buttons are built, they are the first 6 suggested
\* questions in order, and they sit on exactly one text message, the last
\* event sent; no earlier message carries a button
C22_ButtonsOnLastChunk ==
  (Answered /\ i_pc = "done") =>
    \A i \in 1..Len(i_outbox) :
      i_outbox[i].keyboard # <<>> =>
        /\ i = Len(i_outbox)
        /\ i_outbox[i].kind = "text"
        /\ Len(i_outbox[i].keyboard) <= 6
        /\ Len(i_outbox[i].keyboard) = IF Len(SuggestedQuestions) < 6
                                        THEN Len(SuggestedQuestions) ELSE 6
        /\ \A k \in 1..Len(i_outbox[i].keyboard) :
             /\ i_outbox[i].keyboard[k].text = ButtonText(SuggestedQuestions[k])
             /\ i_outbox[i].keyboard[k].callback_data = CallbackData(SuggestedQuestions[k])

\* a report of several messages went out for more than 6 suggestions, the
\* last message with 6 buttons
C22_Witness ==
  /\ i_pc = "done"
  /\ Answered
  /\ Len(i_backend.response.suggestions) > 6
  /\ Len(TextEvents) >= 3
  /\ Len(i_outbox[Len(i_outbox)].keyboard) = 6
  /\ i_outbox[Len(i_outbox) - 1].kind = "text"
  /\ i_outbox[Len(i_outbox) - 1].keyboard = <<>>

\* C23: on every path, each text message sent in reply to a result is
\* within the 4096-byte ceiling when no line of the reply is over 4000 bytes
C23_TextWithinCeiling ==
  (Answered /\ NoLongLine(ReplyText)) =>
    \A i \in PositionsOf("text") : RunsLen(i_outbox[i].body) <= hard_limit

\* C24: the CSV and the chart are sent, or have failed, before the first
\* text message of the report; nothing but text follows a text message; the
\* messages carry the report's lines in order, the last line in the last one
C24_ArtifactsThenTextInOrder ==
  (Answered /\ ~HasNarrative /\ PositionsOf("text") # {}) =>
    /\ \A i \in PositionsOf("text") : \A j \in (i + 1)..Len(i_outbox) : i_outbox[j].kind = "text"
    /\ i_backend.response.data = "objects" => i_csv # "none"
    /\ i_backend.response.chart # "none" => i_chart # "none"
    /\ \A i \in PositionsOf("document") \cup PositionsOf("photo") :
         \A j \in PositionsOf("text") : i < j
    /\ LET ids == LineIds(Flatten([i \in 1..Len(TextEvents) |-> TextEvents[i].body]))
           last == TextEvents[Len(TextEvents)].body
       IN /\ \A a \in 1..Len(ids) : \A b \in (a + 1)..Len(ids) : ids[a] <= ids[b]
          /\ ids # <<>>
          /\ LineIds(last) # <<>>
          /\ LineIds(last)[Len(LineIds(last))] =
               LineIds(i_backend.response.report)[Len(LineIds(i_backend.response.report))]

\* a CSV and a chart were sent and the report followed in three messages
C24_Witness ==
  /\ i_pc = "done"
  /\ Answered
  /\ ~HasNarrative
  /\ i_csv = "sent"
  /\ i_chart = "sent"
  /\ Len(TextEvents) = 3
  /\ Len(i_outbox) = 7
  /\ i_outbox[3].kind = "document"
  /\ i_outbox[4].kind = "photo"
  /\ LineIds(i_outbox[5].body) = <<1>>
  /\ LineIds(i_outbox[7].body) = <<3>>

\* C25: on every path, for a result with a narrative answer the only
\* reply is that answer: no CSV, no chart image and no buttons are sent
C25_NarrativeAlone ==
  HasNarrative =>
    /\ PositionsOf("document") = {}
    /\ PositionsOf("photo") = {}
    /\ \A i \in 1..Len(i_outbox) : i_outbox[i].keyboard = <<>>
    /\ \A i \in PositionsOf("text") : i_outbox[i].body = i_backend.response.text_response.val

\* C27: when a handler has returned normally, a delete was issued for the
\* "processing" notice it sent
C27_NoticeDeleted ==
  (i_returned = "ok" /\ PositionsOf("notice") # {}) =>
    \E j \in PositionsOf("delete") : \A i \in PositionsOf("notice") : i < j

\* C29: on every path, after a failed write or send of the CSV the
\* report is still sent, and no CSV file is left when the handler has returned
C29_CsvFailureTolerated ==
  (i_pc = "done" /\ i_returned # "panic") =>
    /\ i_csv \in {"write failed", "send failed"} => PositionsOf("text") # {}
    /\ ~i_csv_file

====
